---- MODULE Spec2Model ----
(***************************************************************************)
(* Model of the semantic chunking engine of src/chunking.py:               *)
(*   - Chunker.chunk_text            (boundary scan, line-range merging)   *)
(*   - Chunker.get_embeddings        (concurrent batched embedding calls)  *)
(*   - Chunker.enrich_chunk_metadata (bounded retries, failure log)        *)
(*   - Chunker.process_and_save      (fan-out over documents, enrichment   *)
(*                                    waves, index bookkeeping, save)      *)
(*   - Chunker.get_markdown_units    (parts, header stack, sentences)      *)
(*   - Chunker.__init__              (the tunable size thresholds)         *)
(* The specifications share the variables:                                 *)
(*   SpecChunk   one call of chunk_text on one document                    *)
(*   SpecEmb     one call of get_embeddings                                *)
(*   Spec        one run of process_and_save                               *)
(*   SpecUnits   one call of get_markdown_units on one document            *)
(*   SpecEnrich  one call of enrich_chunk_metadata for one chunk           *)
(*   SpecInit    a Chunker is constructed and chunks one document          *)
(***************************************************************************)
EXTENDS Integers, Sequences, FiniteSets, TLC

(* ------------------------------------------------------------------ *)
(* Bounds of the model.  The size thresholds are constructor          *)
(* parameters of Chunker, scaled down with the unit lengths.          *)
(* ------------------------------------------------------------------ *)
MaxUnits == 3
MinDynamicSize == 4
MaxDynamicSize == 7
MaxTexts == 4
MaxBatchSize == 3
MaxDocs == 2
EnrichBatchSize == 2
MaxRetries == 2

(* Lengths of unit texts, in characters; 8 exceeds MaxDynamicSize.    *)
UnitLens == {1, 3, 8}
(* Cosine similarities of adjacent units, on an integer scale.        *)
SimVals == {0, 1, 2}
(* np.dot(v1, v2) / (norm * norm) of a zero-norm vector: 0/0 is nan.  *)
NaN == -1

VARIABLES
    (* chunk_text *)
    units,                (* get_markdown_units(content)                 *)
    ct_pc,                (* position inside chunk_text                  *)
    similarities,         (* adjacent cosine similarities                *)
    scan_i,               (* loop index i of the boundary scan           *)
    current_chunk_units,  (* the open chunk: indices into units          *)
    chunks,               (* chunks emitted so far / returned            *)
    embed_requests,       (* embeddings.create requests issued           *)
    (* get_embeddings *)
    ge_texts,             (* texts, as passed by the caller              *)
    ge_batch_size,        (* batch_size or self.embedding_batch_size     *)
    ge_pc,                (* position inside get_embeddings              *)
    ge_tasks,             (* the fetch_batch tasks, in creation order    *)
    ge_order,             (* history: batches in order of completion     *)
    all_embeddings,       (* the list returned                           *)
    (* process_and_save *)
    md_files,             (* the documents found, in discovery order     *)
    pas_pc,               (* position inside process_and_save            *)
    file_tasks,           (* the _process_file tasks, in creation order  *)
    out_of_order,         (* history: a task completed before an earlier
                             one did                                     *)
    all_chunks_data,      (* the chunk records of all documents          *)
    batch_i,              (* loop variable i of the enrichment loop      *)
    items,                (* per chunk: its enrich_and_save task; all_raised
                             is history: no attempt so far, or of the
                             finished task, ended other than by raising  *)
    failed_enrichments,   (* self.failed_enrichments                     *)
    files,                (* chunks_dir: file number -> record written   *)
    file_writes,          (* history: file number -> number of writes    *)
    progress,             (* completed count of the progress bar         *)
    progress_log,         (* history: completed count after each batch   *)
    (* get_markdown_units *)
    content,              (* the document, a sequence of characters      *)
    line_offsets,         (* offset of the first character of each line  *)
    mu_pc,                (* position inside get_markdown_units          *)
    parts,                (* (start, end, text) of the blank-line parts  *)
    part_i,               (* number of parts the loop has handled        *)
    header_stack,         (* (level, header_text) pairs, bottom first    *)
    current_header_path,  (* the active header path                      *)
    md_units,             (* the units appended so far / returned        *)
    (* enrich_chunk_metadata *)
    en_args,              (* chunk_text, header_path, chunk_index        *)
    max_retries,          (* self.max_retries                            *)
    en_pc,                (* position inside enrich_chunk_metadata       *)
    attempt,              (* loop variable of the retry loop             *)
    en_history,           (* history: outcome of each call, in order     *)
    en_sleeps,            (* history: number of asyncio.sleep(1) taken   *)
    en_result,            (* the dict returned                           *)
    (* Chunker.__init__ *)
    k_pc,                 (* position: constructing, constructed, chunked*)
    self_min_dynamic_size,(* self.min_dynamic_size                       *)
    self_max_dynamic_size,(* self.max_dynamic_size                       *)
    (* chunk_text, lines 255-283, on given embeddings *)
    embeddings,           (* np.array of the vectors get_embeddings gave *)
    sim_pc,               (* position inside lines 255-283               *)
    threshold,            (* np.percentile(similarities, 40), times 5    *)
    is_topic_shift,       (* history: sim < threshold of each iteration  *)
    (* ImageChunker.process_images *)
    discovered,           (* the paths the rglob calls gave, as found    *)
    image_paths,          (* sorted(set(image_paths))                    *)
    img_pc,               (* position inside process_images              *)
    img_i,                (* loop variable i of the batch loop           *)
    img_items,            (* per image: its process_single_image task;
                             history is the outcome of each attempt      *)
    failed_captions,      (* self.failed_captions                        *)
    image_files,          (* output_dir: index -> record written         *)
    all_results           (* the list returned                           *)

chunk_vars == << units, ct_pc, similarities, scan_i, current_chunk_units, chunks,
                 embed_requests >>

emb_vars == << ge_texts, ge_batch_size, ge_pc, ge_tasks, ge_order, all_embeddings >>

pas_vars == << md_files, pas_pc, file_tasks, out_of_order, all_chunks_data, batch_i,
               items, failed_enrichments, files, file_writes, progress, progress_log >>

mu_vars == << content, line_offsets, mu_pc, parts, part_i, header_stack, current_header_path,
              md_units >>

en_vars == << en_args, max_retries, en_pc, attempt, en_history, en_sleeps, en_result >>

cfg_vars == << k_pc, self_min_dynamic_size, self_max_dynamic_size >>

sim_vars == << embeddings, sim_pc, threshold, is_topic_shift >>

img_vars == << discovered, image_paths, img_pc, img_i, img_items, failed_captions,
               image_files, all_results >>

ext_vars == << mu_vars, en_vars, cfg_vars, sim_vars, img_vars >>

vars == << chunk_vars, emb_vars, pas_vars, ext_vars >>

(* ------------------------------------------------------------------ *)
(* Generic helpers                                                    *)
(* ------------------------------------------------------------------ *)
Max(a, b) == IF a >= b THEN a ELSE b

Min(a, b) == IF a <= b THEN a ELSE b

Last(s) == s[Len(s)]

RECURSIVE SumSeq(_)
SumSeq(s) == IF s = << >> THEN 0 ELSE Head(s) + SumSeq(Tail(s))

(* ------------------------------------------------------------------ *)
(* Units as get_markdown_units leaves them                            *)
(* ------------------------------------------------------------------ *)
(* The text of the k-th unit: n characters, all the character k, so   *)
(* that texts of different units differ and never contain a newline.  *)
UnitText(k, n) == [j \in 1..n |-> k]

(* The shape of a unit: its type, the length of its text, its height
   in lines minus one, and gap, the distance of its first line from the
   previous unit's last line.  A part follows the previous part after a
   blank line (gap 2); only the sentences of one long paragraph share a
   line (gap 0) or sit on consecutive lines (gap 1). *)
Shape(t, n, h, g) == [type |-> t, len |-> n, height |-> h, gap |-> g]

UnitShapes ==
    { Shape("header", 1, 0, 2), Shape("header", 3, 0, 2),
      Shape("table", 3, 1, 2),  Shape("table", 8, 1, 2) }
    \cup { Shape("text", 1, 0, g) : g \in {0, 1, 2} }
    \cup { Shape("text", 3, 1, g) : g \in {0, 1, 2} }
    \cup { Shape("text", 8, 1, g) : g \in {1, 2} }

ShapeOk(prev, s) == s.gap < 2 => prev = "text"

ShapesOk(ss) ==
    \A k \in 1..Len(ss) :
        ShapeOk(IF k = 1 THEN "none" ELSE ss[k-1].type, ss[k])

(* header_path of unit k: the text of the last header at or before k
   (all headers of these documents have depth 1), "" when there is none. *)
RECURSIVE HeaderPathAt(_, _)
HeaderPathAt(ss, k) ==
    IF k = 0 THEN << >>
    ELSE IF ss[k].type = "header" THEN UnitText(k, ss[k].len)
    ELSE HeaderPathAt(ss, k - 1)

RECURSIVE LineStartAt(_, _)
LineStartAt(ss, k) ==
    IF k = 1 THEN 1
    ELSE LineStartAt(ss, k - 1) + ss[k-1].height + ss[k].gap

BuildUnits(ss) ==
    [k \in 1..Len(ss) |->
        [text        |-> UnitText(k, ss[k].len),
         type        |-> ss[k].type,
         header_path |-> HeaderPathAt(ss, k),
         line_start  |-> LineStartAt(ss, k),
         line_end    |-> LineStartAt(ss, k) + ss[k].height]]

UnitSeqs ==
    UNION { { BuildUnits(ss) : ss \in { x \in [1..n -> UnitShapes] : ShapesOk(x) } }
            : n \in 0..MaxUnits }

(* ------------------------------------------------------------------ *)
(* chunk_text: pure parts                                             *)
(* ------------------------------------------------------------------ *)
(* "\n\n".join(texts); the newline is character 0. *)
Sep == << 0, 0 >>

RECURSIVE Join(_)
Join(texts) ==
    IF texts = << >> THEN << >>
    ELSE IF Len(texts) = 1 THEN texts[1]
    ELSE texts[1] \o Sep \o Join(Tail(texts))

(* ranges.sort(key=lambda x: x[0]): a stable sort by start. *)
RECURSIVE InsertByStart(_, _)
InsertByStart(r, sorted) ==
    IF sorted = << >> THEN << r >>
    ELSE IF r[1] < Head(sorted)[1] THEN << r >> \o sorted
    ELSE << Head(sorted) >> \o InsertByStart(r, Tail(sorted))

RECURSIVE SortByStart(_)
SortByStart(ranges) ==
    IF ranges = << >> THEN << >>
    ELSE InsertByStart(Last(ranges), SortByStart(SubSeq(ranges, 1, Len(ranges) - 1)))

(* Mutant: only overlapping intervals are merged, adjacent ones are not. *)
RECURSIVE MergeLoop_NoAdjacent(_, _, _, _)
MergeLoop_NoAdjacent(rest, current_start, current_end, merged) ==
    IF rest = << >> THEN Append(merged, << current_start, current_end >>)
    ELSE IF Head(rest)[1] <= current_end
         THEN MergeLoop_NoAdjacent(Tail(rest), current_start,
                                   Max(current_end, Head(rest)[2]), merged)
         ELSE MergeLoop_NoAdjacent(Tail(rest), Head(rest)[1], Head(rest)[2],
                                   Append(merged, << current_start, current_end >>))

(* The merge loop of get_chunk_line_ranges over ranges[1:]. *)
RECURSIVE MergeLoop(_, _, _, _)
MergeLoop(rest, current_start, current_end, merged) ==
    IF rest = << >> THEN Append(merged, << current_start, current_end >>)
    ELSE IF Head(rest)[1] <= current_end + 1
         THEN MergeLoop(Tail(rest), current_start, Max(current_end, Head(rest)[2]), merged)
         ELSE MergeLoop(Tail(rest), Head(rest)[1], Head(rest)[2],
                        Append(merged, << current_start, current_end >>))

(* Mutant: the interval still open when the loop ends is not appended. *)
MergeRanges_DropsLast(sorted) ==
    LET all == MergeLoop(Tail(sorted), sorted[1][1], sorted[1][2], << >>)
    IN  SubSeq(all, 1, Len(all) - 1)

MergeRanges(sorted) ==
    MergeLoop(Tail(sorted), sorted[1][1], sorted[1][2], << >>)

(* get_chunk_line_ranges(chunk_units), chunk_units a sequence of units. *)
get_chunk_line_ranges(chunk_units) ==
    LET ranges == [k \in 1..Len(chunk_units) |->
                      << chunk_units[k].line_start, chunk_units[k].line_end >>]
    IN  IF ranges = << >> THEN << >> ELSE MergeRanges(SortByStart(ranges))

(* The dict appended to chunks; cu holds indices into us.  source_units
   is history kept by the model only: the units the chunk was built of. *)
MakeChunk(us, cu) ==
    [content      |-> Join([k \in 1..Len(cu) |-> us[cu[k]].text]),
     header_path  |-> us[cu[1]].header_path,
     line_ranges  |-> get_chunk_line_ranges([k \in 1..Len(cu) |-> us[cu[k]]]),
     source_units |-> cu]

(* np.percentile(similarities, 40), linear interpolation, times 5:
   the virtual index is 0.4 * (m - 1) into the sorted scores.  Any nan
   among the scores makes the percentile nan. *)
RECURSIVE InsertNum(_, _)
InsertNum(x, sorted) ==
    IF sorted = << >> THEN << x >>
    ELSE IF x < Head(sorted) THEN << x >> \o sorted
    ELSE << Head(sorted) >> \o InsertNum(x, Tail(sorted))

RECURSIVE SortNum(_)
SortNum(s) == IF s = << >> THEN << >> ELSE InsertNum(Head(s), SortNum(Tail(s)))

Percentile40x5(sims) ==
    IF \E k \in 1..Len(sims) : sims[k] = NaN THEN NaN
    ELSE LET a    == SortNum(sims)
             pos2 == 2 * (Len(sims) - 1)
             lo   == (pos2 \div 5) + 1
             frac == pos2 % 5
         IN  IF frac = 0 THEN 5 * a[lo]
             ELSE 5 * a[lo] + frac * (a[lo + 1] - a[lo])

(* Mutant: a similarity equal to the threshold is a topic shift too. *)
IsTopicShift_AtOrBelow(sim, threshold5) ==
    /\ sim # NaN
    /\ threshold5 # NaN
    /\ 5 * sim <= threshold5

(* sim < threshold; a comparison with nan is False. *)
IsTopicShift(sim, threshold5) ==
    /\ sim # NaN
    /\ threshold5 # NaN
    /\ 5 * sim < threshold5

(* sum(len(u["text"]) + 2 for u in current_chunk_units) *)
CurrentTextLen(us, cu) == SumSeq([k \in 1..Len(cu) |-> Len(us[cu[k]].text) + 2])

IsBigEnough(us, cu) == CurrentTextLen(us, cu) >= MinDynamicSize

(* Mutant: a chunk that would reach MAX_DYNAMIC_SIZE exactly is closed too. *)
WillBeTooBig_AtLimit(us, cu, next) ==
    CurrentTextLen(us, cu) + Len(us[next].text) >= MaxDynamicSize

WillBeTooBig(us, cu, next) ==
    CurrentTextLen(us, cu) + Len(us[next].text) > MaxDynamicSize

(* Mutant: the size guard of a topic shift is forgotten. *)
ClosesChunk_NoMinGuard(us, sims, cu, i) ==
    \/ IsTopicShift(sims[i + 1], Percentile40x5(sims))
    \/ WillBeTooBig(us, cu, i + 2)

(* The condition of line 287 for the pair (i, i+1), i 0-based. *)
ClosesChunk(us, sims, cu, i) ==
    \/ (IsTopicShift(sims[i + 1], Percentile40x5(sims)) /\ IsBigEnough(us, cu))
    \/ WillBeTooBig(us, cu, i + 2)

(* Mutant: the last unit is carried over whatever its type. *)
SeedAfterClose_AlwaysCarries(us, cu, next) == << Last(cu), next >>

(* Mutant: the last two units of the closed chunk are carried over. *)
SeedAfterClose_CarriesTwo(us, cu, next) ==
    IF Len(cu) >= 2 THEN << cu[Len(cu) - 1], Last(cu), next >> ELSE << Last(cu), next >>

(* The open chunk after a close before unit next (lines 298-302). *)
SeedAfterClose(us, cu, next) ==
    IF us[Last(cu)].type # "header" THEN << Last(cu), next >> ELSE << next >>

(* The whole scan of lines 277-314 as a function, from loop index i. *)
RECURSIVE ScanFrom(_, _, _, _, _)
ScanFrom(us, sims, i, cu, out) ==
    IF i = Len(sims)
    THEN IF cu # << >> THEN Append(out, MakeChunk(us, cu)) ELSE out
    ELSE IF ClosesChunk(us, sims, cu, i)
         THEN ScanFrom(us, sims, i + 1, SeedAfterClose(us, cu, i + 2),
                       Append(out, MakeChunk(us, cu)))
         ELSE ScanFrom(us, sims, i + 1, Append(cu, i + 2), out)

(* chunk_text(content) given the units and, for two or more units, the
   adjacent similarities of their embeddings. *)
ChunkTextResult(us, sims) ==
    IF us = << >> THEN << >>
    ELSE IF Len(us) = 1 THEN << MakeChunk(us, << 1 >>) >>
    ELSE IF sims = << >> THEN [k \in 1..Len(us) |-> MakeChunk(us, << k >>)]
    ELSE ScanFrom(us, sims, 0, << 1 >>, << >>)

(* One request per batch of embedding_batch_size texts. *)
EmbeddingBatchSize == 2

NumBatches(n) == (n + EmbeddingBatchSize - 1) \div EmbeddingBatchSize

(* Embedding vectors: the zero vector, two orthogonal directions and
   the direction between them. *)
VectorPool == { << 0, 0 >>, << 1, 0 >>, << 0, 1 >>, << 1, 1 >> }

Dot(v1, v2) == SumSeq([k \in 1..Len(v1) |-> v1[k] * v2[k]])

NormSq(v) == Dot(v, v)

(* np.dot(v1, v2) / (norm(v1) * norm(v2)) on the scale of SimVals:
   0 is 0.0, 2 is 1.0 and 1 is a value strictly between them.  With a
   zero norm the quotient is 0.0 / 0.0, which numpy evaluates to nan. *)
cosine_similarity(v1, v2) ==
    IF NormSq(v1) * NormSq(v2) = 0 THEN NaN
    ELSE IF Dot(v1, v2) = 0 THEN 0
    ELSE IF Dot(v1, v2) * Dot(v1, v2) = NormSq(v1) * NormSq(v2) THEN 2
    ELSE 1

(* lines 257-260 *)
Similarities(embs) ==
    [k \in 1..(Len(embs) - 1) |-> cosine_similarity(embs[k], embs[k + 1])]

EmbeddingSeqs(n) == [1..n -> VectorPool]

(* The similarity lists of n + 1 embeddings. *)
SimSeqs(n) == { Similarities(embs) : embs \in EmbeddingSeqs(n + 1) }

(* The variables of process_and_save while no run of it is modelled. *)
PasIdle ==
    /\ md_files = << >>
    /\ pas_pc = "idle"
    /\ file_tasks = << >>
    /\ out_of_order = FALSE
    /\ all_chunks_data = << >>
    /\ batch_i = 0
    /\ items = << >>
    /\ failed_enrichments = << >>
    /\ files = << >>
    /\ file_writes = << >>
    /\ progress = 0
    /\ progress_log = << >>

(* The variables of get_markdown_units, enrich_chunk_metadata and
   Chunker.__init__ while no call of them is modelled. *)
MuIdle ==
    /\ content = << >>
    /\ line_offsets = << >>
    /\ mu_pc = "idle"
    /\ parts = << >>
    /\ part_i = 0
    /\ header_stack = << >>
    /\ current_header_path = << >>
    /\ md_units = << >>

EnIdle ==
    /\ en_args = << >>
    /\ max_retries = 0
    /\ en_pc = "idle"
    /\ attempt = 0
    /\ en_history = << >>
    /\ en_sleeps = 0
    /\ en_result = << >>

CfgIdle ==
    /\ k_pc = "idle"
    /\ self_min_dynamic_size = 0
    /\ self_max_dynamic_size = 0

SimIdle ==
    /\ embeddings = << >>
    /\ sim_pc = "idle"
    /\ threshold = 0
    /\ is_topic_shift = << >>

ImgIdle ==
    /\ discovered = << >>
    /\ image_paths = << >>
    /\ img_pc = "idle"
    /\ img_i = 0
    /\ img_items = << >>
    /\ failed_captions = << >>
    /\ image_files = << >>
    /\ all_results = << >>

ExtIdle == MuIdle /\ EnIdle /\ CfgIdle /\ SimIdle /\ ImgIdle

(* The variables of get_embeddings while no call of it is modelled. *)
EmbIdle ==
    /\ ge_texts = << >>
    /\ ge_batch_size = EmbeddingBatchSize
    /\ ge_pc = "idle"
    /\ ge_tasks = << >>
    /\ ge_order = << >>
    /\ all_embeddings = << >>

(* ------------------------------------------------------------------ *)
(* chunk_text: one call, step by step                                 *)
(* ------------------------------------------------------------------ *)
InitChunk ==
    /\ units \in UnitSeqs
    /\ ct_pc = "start"
    /\ similarities = << >>
    /\ scan_i = 0
    /\ current_chunk_units = << >>
    /\ chunks = << >>
    /\ embed_requests = 0
    /\ EmbIdle
    /\ PasIdle
    /\ ExtIdle

(* lines 220-222: no units *)
CT_ReturnEmpty ==
    /\ ct_pc = "start"
    /\ units = << >>
    /\ chunks' = << >>
    /\ ct_pc' = "returned"
    /\ UNCHANGED << units, similarities, scan_i, current_chunk_units, embed_requests >>
    /\ UNCHANGED << emb_vars, pas_vars, ext_vars >>

(* lines 247-252: exactly one unit *)
CT_ReturnSingle ==
    /\ ct_pc = "start"
    /\ Len(units) = 1
    /\ chunks' = << MakeChunk(units, << 1 >>) >>
    /\ ct_pc' = "returned"
    /\ UNCHANGED << units, similarities, scan_i, current_chunk_units, embed_requests >>
    /\ UNCHANGED << emb_vars, pas_vars, ext_vars >>

(* Mutant: the single-unit short-circuit does not come first. *)
CT_CallEmbeddings_NoShortCircuit ==
    /\ ct_pc = "start"
    /\ Len(units) >= 1
    /\ embed_requests' = embed_requests + NumBatches(Len(units))
    /\ ct_pc' = "embedding"
    /\ UNCHANGED << units, similarities, scan_i, current_chunk_units, chunks >>
    /\ UNCHANGED << emb_vars, pas_vars, ext_vars >>

(* line 255: await self.get_embeddings(unit_texts) is entered *)
CT_CallEmbeddings ==
    /\ ct_pc = "start"
    /\ Len(units) >= 2
    /\ embed_requests' = embed_requests + NumBatches(Len(units))
    /\ ct_pc' = "embedding"
    /\ UNCHANGED << units, similarities, scan_i, current_chunk_units, chunks >>
    /\ UNCHANGED << emb_vars, pas_vars, ext_vars >>

(* lines 255-275: the embeddings arrive; similarities, threshold and the
   first open chunk are set up *)
CT_EmbeddingsReturn ==
    /\ ct_pc = "embedding"
    /\ \E sims \in SimSeqs(Len(units) - 1) : similarities' = sims
    /\ current_chunk_units' = << 1 >>
    /\ scan_i' = 0
    /\ ct_pc' = "scan"
    /\ UNCHANGED << units, chunks, embed_requests >>
    /\ UNCHANGED << emb_vars, pas_vars, ext_vars >>

(* line 255: a request of get_embeddings raises; nothing catches it *)
CT_EmbeddingsRaise ==
    /\ ct_pc = "embedding"
    /\ ct_pc' = "raised"
    /\ UNCHANGED << units, similarities, scan_i, current_chunk_units, chunks,
                    embed_requests >>
    /\ UNCHANGED << emb_vars, pas_vars, ext_vars >>

(* lines 287-302: the open chunk is closed before unit i+1 *)
CT_ScanClose ==
    /\ ct_pc = "scan"
    /\ scan_i < Len(similarities)
    /\ ClosesChunk(units, similarities, current_chunk_units, scan_i)
    /\ chunks' = Append(chunks, MakeChunk(units, current_chunk_units))
    /\ current_chunk_units' = SeedAfterClose(units, current_chunk_units, scan_i + 2)
    /\ scan_i' = scan_i + 1
    /\ UNCHANGED << units, ct_pc, similarities, embed_requests >>
    /\ UNCHANGED << emb_vars, pas_vars, ext_vars >>

(* lines 303-304: unit i+1 joins the open chunk *)
CT_ScanAppend ==
    /\ ct_pc = "scan"
    /\ scan_i < Len(similarities)
    /\ ~ClosesChunk(units, similarities, current_chunk_units, scan_i)
    /\ current_chunk_units' = Append(current_chunk_units, scan_i + 2)
    /\ scan_i' = scan_i + 1
    /\ UNCHANGED << units, ct_pc, similarities, chunks, embed_requests >>
    /\ UNCHANGED << emb_vars, pas_vars, ext_vars >>

(* Mutant: the chunk left by the scan is emitted only when big enough. *)
CT_Finish_OnlyIfBigEnough ==
    /\ ct_pc = "scan"
    /\ scan_i = Len(similarities)
    /\ chunks' = IF IsBigEnough(units, current_chunk_units)
                 THEN Append(chunks, MakeChunk(units, current_chunk_units))
                 ELSE chunks
    /\ ct_pc' = "returned"
    /\ UNCHANGED << units, similarities, scan_i, current_chunk_units, embed_requests >>
    /\ UNCHANGED << emb_vars, pas_vars, ext_vars >>

(* lines 306-316: the open chunk left by the scan is emitted *)
CT_Finish ==
    /\ ct_pc = "scan"
    /\ scan_i = Len(similarities)
    /\ chunks' = IF current_chunk_units # << >>
                 THEN Append(chunks, MakeChunk(units, current_chunk_units))
                 ELSE chunks
    /\ ct_pc' = "returned"
    /\ UNCHANGED << units, similarities, scan_i, current_chunk_units, embed_requests >>
    /\ UNCHANGED << emb_vars, pas_vars, ext_vars >>

NextChunk ==
    \/ CT_ReturnEmpty
    \/ CT_ReturnSingle
    \/ CT_CallEmbeddings
    \/ CT_EmbeddingsReturn
    \/ CT_EmbeddingsRaise
    \/ CT_ScanClose
    \/ CT_ScanAppend
    \/ CT_Finish

SpecChunk == InitChunk /\ [][NextChunk]_vars

(* The variables of chunk_text while no call of it is modelled. *)
ChunkIdle ==
    /\ units = << >>
    /\ ct_pc = "idle"
    /\ similarities = << >>
    /\ scan_i = 0
    /\ current_chunk_units = << >>
    /\ chunks = << >>
    /\ embed_requests = 0

(* ------------------------------------------------------------------ *)
(* get_embeddings: one call, its batch requests running concurrently   *)
(* ------------------------------------------------------------------ *)
(* Texts handed to get_embeddings; character 0 is a newline. *)
TextPool == { << 1 >>, << 2 >>, << 1, 0, 2 >> }

(* t.replace("\n", " ") *)
ReplaceNewlines(t) == [j \in 1..Len(t) |-> IF t[j] = 0 THEN 32 ELSE t[j]]

(* What the embedding service answers for one input text: an opaque
   vector determined by the text. *)
ServiceEmbedding(t) == [embedding_of |-> t]

RECURSIVE Concat(_)
Concat(lists) == IF lists = << >> THEN << >> ELSE Head(lists) \o Concat(Tail(lists))

(* texts[i:i + batch_size] for i in range(0, len(texts), batch_size) *)
Batches(texts, bs) ==
    [b \in 1..((Len(texts) + bs - 1) \div bs) |->
        SubSeq(texts, (b - 1) * bs + 1, Min(b * bs, Len(texts)))]

(* Mutant: the batch results are taken in order of completion. *)
GatheredResults_CompletionOrder ==
    [b \in 1..Len(ge_tasks) |-> ge_tasks[ge_order[b]].result]

(* results = await asyncio.gather over tasks: in the order of tasks. *)
GatheredResults == [b \in 1..Len(ge_tasks) |-> ge_tasks[b].result]

InitEmb ==
    /\ ge_texts \in UNION { [1..n -> TextPool] : n \in 0..MaxTexts }
    /\ ge_batch_size \in 1..MaxBatchSize
    /\ ge_pc = "start"
    /\ ge_tasks = << >>
    /\ ge_order = << >>
    /\ all_embeddings = << >>
    /\ ChunkIdle
    /\ PasIdle
    /\ ExtIdle

(* lines 81-94: the texts are normalised, one fetch_batch per batch is
   created and gather starts them all *)
GE_Dispatch ==
    /\ ge_pc = "start"
    /\ LET texts == [i \in 1..Len(ge_texts) |-> ReplaceNewlines(ge_texts[i])]
           bs    == Batches(texts, ge_batch_size)
       IN  /\ ge_tasks' = [b \in 1..Len(bs) |->
                              [batch |-> bs[b], status |-> "pending", result |-> << >>]]
           /\ embed_requests' = embed_requests + Len(bs)
    /\ ge_pc' = "gather"
    /\ UNCHANGED << ge_texts, ge_batch_size, ge_order, all_embeddings >>
    /\ UNCHANGED << units, ct_pc, similarities, scan_i, current_chunk_units, chunks >>
    /\ UNCHANGED << pas_vars, ext_vars >>

(* lines 86-87: the request of batch b is answered, index-aligned *)
GE_BatchReturn(b) ==
    /\ ge_pc = "gather"
    /\ ge_tasks[b].status = "pending"
    /\ ge_tasks' = [ge_tasks EXCEPT
                      ![b].status = "done",
                      ![b].result = [k \in 1..Len(ge_tasks[b].batch) |->
                                        ServiceEmbedding(ge_tasks[b].batch[k])]]
    /\ ge_order' = Append(ge_order, b)
    /\ UNCHANGED << ge_texts, ge_batch_size, ge_pc, all_embeddings, chunk_vars, pas_vars, ext_vars >>

(* line 86: the request of batch b raises *)
GE_BatchRaise(b) ==
    /\ ge_pc = "gather"
    /\ ge_tasks[b].status = "pending"
    /\ ge_tasks' = [ge_tasks EXCEPT ![b].status = "raised"]
    /\ ge_order' = Append(ge_order, b)
    /\ UNCHANGED << ge_texts, ge_batch_size, ge_pc, all_embeddings, chunk_vars, pas_vars, ext_vars >>

(* lines 94-98: every batch is done; the results are concatenated *)
GE_GatherReturn ==
    /\ ge_pc = "gather"
    /\ \A b \in 1..Len(ge_tasks) : ge_tasks[b].status = "done"
    /\ all_embeddings' = Concat(GatheredResults)
    /\ ge_pc' = "returned"
    /\ UNCHANGED << ge_texts, ge_batch_size, ge_tasks, ge_order, chunk_vars, pas_vars, ext_vars >>

(* line 94: gather re-raises the exception of a batch; nothing in
   get_embeddings catches or retries it *)
GE_GatherRaise ==
    /\ ge_pc = "gather"
    /\ \E b \in 1..Len(ge_tasks) : ge_tasks[b].status = "raised"
    /\ ge_pc' = "raised"
    /\ UNCHANGED << ge_texts, ge_batch_size, ge_tasks, ge_order, all_embeddings,
                    chunk_vars, pas_vars, ext_vars >>

NextEmb ==
    \/ GE_Dispatch
    \/ \E b \in 1..Len(ge_tasks) : GE_BatchReturn(b)
    \/ \E b \in 1..Len(ge_tasks) : GE_BatchRaise(b)
    \/ GE_GatherReturn
    \/ GE_GatherRaise

SpecEmb == InitEmb /\ [][NextEmb]_vars

(* ------------------------------------------------------------------ *)
(* process_and_save: one run                                          *)
(* ------------------------------------------------------------------ *)
(* The documents of a run: a file that cannot be read, an empty file, a
   one-paragraph file (one chunk, no embeddings) and a header followed by
   a long table (two chunks, from embeddings). *)
DocPool ==
    { [readable |-> FALSE, units |-> << >>],
      [readable |-> TRUE,  units |-> << >>],
      [readable |-> TRUE,  units |-> BuildUnits(<< Shape("text", 3, 1, 2) >>)],
      [readable |-> TRUE,  units |-> BuildUnits(<< Shape("header", 3, 0, 2),
                                                  Shape("table", 8, 1, 2) >>)] }

(* The records _process_file builds for document f from chunk_text's
   result; the document-local chunk_index starts at start_index = 0. *)
ProcessFileResult(f, file_chunks) ==
    [i \in 1..Len(file_chunks) |->
        [content              |-> file_chunks[i].content,
         header_path          |-> file_chunks[i].header_path,
         line_ranges          |-> file_chunks[i].line_ranges,
         source_file          |-> f,
         chunk_index          |-> 0 + (i - 1),
         total_chunks_in_file |-> Len(file_chunks)]]

(* The indices of the documents whose read succeeded, in order. *)
RECURSIVE ReadableFiles(_, _)
ReadableFiles(fs, k) ==
    IF k > Len(fs) THEN << >>
    ELSE (IF fs[k].readable THEN << k >> ELSE << >>) \o ReadableFiles(fs, k + 1)

Take(sq, n) == SubSeq(sq, 1, Min(n, Len(sq)))

(* What the extraction service answers for a chunk when it answers with
   a ChunkMetadata: a summary of that chunk and more entries than the
   4 questions / 5 keywords asked for. *)
ServiceMetadata(chunk_text) ==
    { [summary |-> chunk_text, hypothetical_questions |-> << 1, 2, 3, 4, 5 >>,
       keywords |-> << 1, 2, 3, 4, 5, 6 >>] }

(* lines 331-335 *)
TruncatedMetadata(raw) ==
    [summary                |-> raw.summary,
     hypothetical_questions |-> Take(raw.hypothetical_questions, 4),
     keywords               |-> Take(raw.keywords, 5)]

(* line 353 *)
EmptyMetadata == [summary |-> << >>, hypothetical_questions |-> << >>, keywords |-> << >>]

(* lines 344-349 *)
FailureInfo(chunk_index, chunk_text, header_path) ==
    [chunk_index   |-> chunk_index,
     header_path   |-> header_path,
     chunk_preview |-> Take(chunk_text, 150),
     error         |-> "error"]

(* Mutant: the index given to enrich_and_save is the position in the batch. *)
EnrichedRecord_BatchIndex(chunk_data, metadata, idx) ==
    [content                |-> chunk_data.content,
     header_path            |-> chunk_data.header_path,
     line_ranges            |-> chunk_data.line_ranges,
     source_file            |-> chunk_data.source_file,
     total_chunks_in_file   |-> chunk_data.total_chunks_in_file,
     summary                |-> metadata.summary,
     hypothetical_questions |-> metadata.hypothetical_questions,
     keywords               |-> metadata.keywords,
     global_chunk_index     |-> idx - batch_i,
     chunk_index            |-> idx - batch_i]

(* lines 396-398: the record of chunk idx after enrich_and_save set its
   metadata and indices. *)
EnrichedRecord(chunk_data, metadata, idx) ==
    [content                |-> chunk_data.content,
     header_path            |-> chunk_data.header_path,
     line_ranges            |-> chunk_data.line_ranges,
     source_file            |-> chunk_data.source_file,
     total_chunks_in_file   |-> chunk_data.total_chunks_in_file,
     summary                |-> metadata.summary,
     hypothetical_questions |-> metadata.hypothetical_questions,
     keywords               |-> metadata.keywords,
     global_chunk_index     |-> idx,
     chunk_index            |-> idx]

(* The chunks of the batch that starts at i: all_chunks_data[i:i + batch_size],
   as 0-based indices. *)
BatchOf(i) == { g \in 0..(Len(all_chunks_data) - 1) : i <= g /\ g < i + EnrichBatchSize }

Init ==
    /\ md_files \in UNION { [1..n -> DocPool] : n \in 0..MaxDocs }
    /\ pas_pc = "start"
    /\ file_tasks = << >>
    /\ out_of_order = FALSE
    /\ all_chunks_data = << >>
    /\ batch_i = 0
    /\ items = << >>
    /\ failed_enrichments = << >>
    /\ files = << >>
    /\ file_writes = << >>
    /\ progress = 0
    /\ progress_log = << >>
    /\ ChunkIdle
    /\ EmbIdle
    /\ ExtIdle

(* lines 373-383: the files are read, a _process_file task is created for
   each file that could be read, and gather starts them: a task runs
   chunk_text up to its await of get_embeddings, or to its end when the
   document has fewer than two units *)
P_StartFiles ==
    /\ pas_pc = "start"
    /\ LET rd == ReadableFiles(md_files, 1)
       IN  file_tasks' =
             [t \in 1..Len(rd) |->
                IF Len(md_files[rd[t]].units) >= 2
                THEN [file |-> rd[t], status |-> "embedding", result |-> << >>]
                ELSE [file |-> rd[t], status |-> "done",
                      result |-> ProcessFileResult(rd[t],
                                    ChunkTextResult(md_files[rd[t]].units, << >>))]]
    /\ pas_pc' = "gather"
    /\ UNCHANGED << md_files, out_of_order, all_chunks_data, batch_i, items,
                    failed_enrichments, files, file_writes, progress, progress_log >>
    /\ UNCHANGED << chunk_vars, emb_vars, ext_vars >>

(* lines 356-368: the embeddings of task t arrive; chunk_text finishes and
   _process_file returns its records *)
F_EmbeddingsReturn(t) ==
    /\ pas_pc = "gather"
    /\ file_tasks[t].status = "embedding"
    /\ \E sims \in SimSeqs(Len(md_files[file_tasks[t].file].units) - 1) :
          file_tasks' = [file_tasks EXCEPT
             ![t].status = "done",
             ![t].result = ProcessFileResult(file_tasks[t].file,
                              ChunkTextResult(md_files[file_tasks[t].file].units, sims))]
    /\ out_of_order' = (out_of_order \/ \E e \in 1..(t - 1) : file_tasks[e].status = "embedding")
    /\ UNCHANGED << md_files, pas_pc, all_chunks_data, batch_i, items,
                    failed_enrichments, files, file_writes, progress, progress_log >>
    /\ UNCHANGED << chunk_vars, emb_vars, ext_vars >>

(* line 356: get_embeddings raises inside chunk_text of task t; neither
   chunk_text nor _process_file catches it *)
F_EmbeddingsRaise(t) ==
    /\ pas_pc = "gather"
    /\ file_tasks[t].status = "embedding"
    /\ file_tasks' = [file_tasks EXCEPT ![t].status = "raised"]
    /\ out_of_order' = (out_of_order \/ \E e \in 1..(t - 1) : file_tasks[e].status = "embedding")
    /\ UNCHANGED << md_files, pas_pc, all_chunks_data, batch_i, items,
                    failed_enrichments, files, file_writes, progress, progress_log >>
    /\ UNCHANGED << chunk_vars, emb_vars, ext_vars >>

(* file_results = await asyncio.gather over tasks: in the order of tasks. *)
FileResults == [t \in 1..Len(file_tasks) |-> file_tasks[t].result]

(* line 383: gather re-raises the exception of a task; process_and_save
   does not catch it *)
P_GatherRaise ==
    /\ pas_pc = "gather"
    /\ \E t \in 1..Len(file_tasks) : file_tasks[t].status = "raised"
    /\ pas_pc' = "raised"
    /\ UNCHANGED << md_files, file_tasks, out_of_order, all_chunks_data, batch_i, items,
                    failed_enrichments, files, file_writes, progress, progress_log >>
    /\ UNCHANGED << chunk_vars, emb_vars, ext_vars >>

(* lines 383-389: every task is done and there is no chunk at all *)
P_GatherNoChunks ==
    /\ pas_pc = "gather"
    /\ \A t \in 1..Len(file_tasks) : file_tasks[t].status = "done"
    /\ Concat(FileResults) = << >>
    /\ pas_pc' = "no_chunks"
    /\ UNCHANGED << md_files, file_tasks, out_of_order, all_chunks_data, batch_i, items,
                    failed_enrichments, files, file_writes, progress, progress_log >>
    /\ UNCHANGED << chunk_vars, emb_vars, ext_vars >>

(* lines 383-407: every task is done; the results are concatenated and the
   enrichment loop is entered with i = 0 *)
P_GatherReturn ==
    /\ pas_pc = "gather"
    /\ \A t \in 1..Len(file_tasks) : file_tasks[t].status = "done"
    /\ Concat(FileResults) # << >>
    /\ all_chunks_data' = Concat(FileResults)
    /\ items' = [g \in 1..Len(Concat(FileResults)) |->
                    [pc |-> "idle", attempt |-> 0, all_raised |-> TRUE]]
    /\ batch_i' = 0
    /\ pas_pc' = "dispatch"
    /\ UNCHANGED << md_files, file_tasks, out_of_order, failed_enrichments, files,
                    file_writes, progress, progress_log >>
    /\ UNCHANGED << chunk_vars, emb_vars, ext_vars >>

(* lines 408-410: the enrich_and_save tasks of the batch at i are created
   and started; each issues its first extraction call *)
P_Dispatch ==
    /\ pas_pc = "dispatch"
    /\ items' = [g \in 1..Len(items) |->
                    IF (g - 1) \in BatchOf(batch_i)
                    THEN [items[g] EXCEPT !.pc = "call"]
                    ELSE items[g]]
    /\ pas_pc' = "await_batch"
    /\ UNCHANGED << md_files, file_tasks, out_of_order, all_chunks_data, batch_i,
                    failed_enrichments, files, file_writes, progress, progress_log >>
    /\ UNCHANGED << chunk_vars, emb_vars, ext_vars >>

(* Mutant: the file is named after the position of the chunk in its
   batch. *)
SaveChunk_BatchFile(idx, metadata) ==
    LET rec == EnrichedRecord(all_chunks_data[idx + 1], metadata, idx)
        n   == idx - batch_i + 1
    IN  /\ all_chunks_data' = [all_chunks_data EXCEPT ![idx + 1] = rec]
        /\ files' = (n :> rec) @@ files
        /\ file_writes' = (n :> (IF n \in DOMAIN file_writes
                                 THEN file_writes[n] + 1 ELSE 1)) @@ file_writes

(* lines 395-401 after enrich_chunk_metadata returned metadata for chunk
   idx: the record is completed and written to chunk_{idx+1}.json *)
SaveChunk(idx, metadata) ==
    LET rec == EnrichedRecord(all_chunks_data[idx + 1], metadata, idx)
    IN  /\ all_chunks_data' = [all_chunks_data EXCEPT ![idx + 1] = rec]
        /\ files' = ((idx + 1) :> rec) @@ files
        /\ file_writes' = ((idx + 1) :>
                             (IF (idx + 1) \in DOMAIN file_writes
                              THEN file_writes[idx + 1] + 1 ELSE 1)) @@ file_writes

(* lines 321-335: the extraction call of chunk idx answers with a
   ChunkMetadata; it is truncated, returned and saved *)
E_ResponseValid(idx) ==
    /\ pas_pc = "await_batch"
    /\ items[idx + 1].pc = "call"
    /\ \E raw \in ServiceMetadata(all_chunks_data[idx + 1].content) :
          SaveChunk(idx, TruncatedMetadata(raw))
    /\ items' = [items EXCEPT ![idx + 1] =
                    [pc |-> "saved", attempt |-> 0, all_raised |-> FALSE]]
    /\ UNCHANGED << md_files, pas_pc, file_tasks, out_of_order, batch_i,
                    failed_enrichments, progress, progress_log >>
    /\ UNCHANGED << chunk_vars, emb_vars, ext_vars >>

(* lines 319-330: the answer is not a ChunkMetadata and an attempt is
   left: the loop goes on to the next call at once *)
E_ResponseInvalidRetry(idx) ==
    /\ pas_pc = "await_batch"
    /\ items[idx + 1].pc = "call"
    /\ items[idx + 1].attempt < MaxRetries - 1
    /\ items' = [items EXCEPT ![idx + 1].attempt = @ + 1,
                               ![idx + 1].all_raised = FALSE]
    /\ UNCHANGED << md_files, pas_pc, file_tasks, out_of_order, all_chunks_data, batch_i,
                    failed_enrichments, files, file_writes, progress, progress_log >>
    /\ UNCHANGED << chunk_vars, emb_vars, ext_vars >>

(* lines 319-330, 353: the answer of the last attempt is not a
   ChunkMetadata: the loop ends and the empty metadata is returned *)
E_ResponseInvalidFinal(idx) ==
    /\ pas_pc = "await_batch"
    /\ items[idx + 1].pc = "call"
    /\ items[idx + 1].attempt >= MaxRetries - 1
    /\ SaveChunk(idx, EmptyMetadata)
    /\ items' = [items EXCEPT ![idx + 1] =
                    [pc |-> "saved", attempt |-> 0, all_raised |-> FALSE]]
    /\ UNCHANGED << md_files, pas_pc, file_tasks, out_of_order, batch_i,
                    failed_enrichments, progress, progress_log >>
    /\ UNCHANGED << chunk_vars, emb_vars, ext_vars >>

(* Mutant: every failed attempt is recorded, not only the last one. *)
E_RaiseRetry_Records(idx) ==
    /\ pas_pc = "await_batch"
    /\ items[idx + 1].pc = "call"
    /\ items[idx + 1].attempt < MaxRetries - 1
    /\ failed_enrichments' =
          Append(failed_enrichments,
                 FailureInfo(idx, all_chunks_data[idx + 1].content,
                             all_chunks_data[idx + 1].header_path))
    /\ items' = [items EXCEPT ![idx + 1].pc = "sleep"]
    /\ UNCHANGED << md_files, pas_pc, file_tasks, out_of_order, all_chunks_data, batch_i,
                    files, file_writes, progress, progress_log >>
    /\ UNCHANGED << chunk_vars, emb_vars, ext_vars >>

(* lines 337-341: the call raises and an attempt is left: sleep *)
E_RaiseRetry(idx) ==
    /\ pas_pc = "await_batch"
    /\ items[idx + 1].pc = "call"
    /\ items[idx + 1].attempt < MaxRetries - 1
    /\ items' = [items EXCEPT ![idx + 1].pc = "sleep"]
    /\ UNCHANGED << md_files, pas_pc, file_tasks, out_of_order, all_chunks_data, batch_i,
                    failed_enrichments, files, file_writes, progress, progress_log >>
    /\ UNCHANGED << chunk_vars, emb_vars, ext_vars >>

(* line 341: the sleep is over; the next attempt issues its call *)
E_Wake(idx) ==
    /\ pas_pc = "await_batch"
    /\ items[idx + 1].pc = "sleep"
    /\ items' = [items EXCEPT ![idx + 1].pc = "call", ![idx + 1].attempt = @ + 1]
    /\ UNCHANGED << md_files, pas_pc, file_tasks, out_of_order, all_chunks_data, batch_i,
                    failed_enrichments, files, file_writes, progress, progress_log >>
    /\ UNCHANGED << chunk_vars, emb_vars, ext_vars >>

(* lines 337-353: the call of the last attempt raises: the failure is
   recorded, the empty metadata is returned and saved *)
E_RaiseFinal(idx) ==
    /\ pas_pc = "await_batch"
    /\ items[idx + 1].pc = "call"
    /\ items[idx + 1].attempt >= MaxRetries - 1
    /\ failed_enrichments' =
          Append(failed_enrichments,
                 FailureInfo(idx, all_chunks_data[idx + 1].content,
                             all_chunks_data[idx + 1].header_path))
    /\ SaveChunk(idx, EmptyMetadata)
    /\ items' = [items EXCEPT ![idx + 1].pc = "saved", ![idx + 1].attempt = 0]
    /\ UNCHANGED << md_files, pas_pc, file_tasks, out_of_order, batch_i,
                    progress, progress_log >>
    /\ UNCHANGED << chunk_vars, emb_vars, ext_vars >>

(* Mutant: the batch is joined as soon as one of its tasks has finished. *)
BatchJoined_FirstCompleted ==
    \E g \in BatchOf(batch_i) : items[g + 1].pc = "saved"

(* line 410: await asyncio.gather over batch_tasks returns when every
   task of the batch has finished *)
BatchJoined == \A g \in BatchOf(batch_i) : items[g + 1].pc = "saved"

(* lines 410-411, 407: the batch is joined, the progress advances by its
   length and the loop goes on to the next batch *)
P_JoinNext ==
    /\ pas_pc = "await_batch"
    /\ BatchJoined
    /\ batch_i + EnrichBatchSize < Len(all_chunks_data)
    /\ progress' = progress + Cardinality(BatchOf(batch_i))
    /\ progress_log' = Append(progress_log, progress + Cardinality(BatchOf(batch_i)))
    /\ batch_i' = batch_i + EnrichBatchSize
    /\ pas_pc' = "dispatch"
    /\ UNCHANGED << md_files, file_tasks, out_of_order, all_chunks_data, items,
                    failed_enrichments, files, file_writes >>
    /\ UNCHANGED << chunk_vars, emb_vars, ext_vars >>

(* lines 410-421: the last batch is joined; the summary is printed *)
P_JoinLast ==
    /\ pas_pc = "await_batch"
    /\ BatchJoined
    /\ batch_i + EnrichBatchSize >= Len(all_chunks_data)
    /\ progress' = progress + Cardinality(BatchOf(batch_i))
    /\ progress_log' = Append(progress_log, progress + Cardinality(BatchOf(batch_i)))
    /\ pas_pc' = "done"
    /\ UNCHANGED << md_files, file_tasks, out_of_order, all_chunks_data, batch_i, items,
                    failed_enrichments, files, file_writes >>
    /\ UNCHANGED << chunk_vars, emb_vars, ext_vars >>

Next ==
    \/ P_StartFiles
    \/ \E t \in 1..Len(file_tasks) : F_EmbeddingsReturn(t)
    \/ \E t \in 1..Len(file_tasks) : F_EmbeddingsRaise(t)
    \/ P_GatherRaise
    \/ P_GatherNoChunks
    \/ P_GatherReturn
    \/ P_Dispatch
    \/ \E idx \in 0..(Len(items) - 1) : E_ResponseValid(idx)
    \/ \E idx \in 0..(Len(items) - 1) : E_ResponseInvalidRetry(idx)
    \/ \E idx \in 0..(Len(items) - 1) : E_ResponseInvalidFinal(idx)
    \/ \E idx \in 0..(Len(items) - 1) : E_RaiseRetry(idx)
    \/ \E idx \in 0..(Len(items) - 1) : E_Wake(idx)
    \/ \E idx \in 0..(Len(items) - 1) : E_RaiseFinal(idx)
    \/ P_JoinNext
    \/ P_JoinLast

Spec == Init /\ [][Next]_vars

(* Every embedding and extraction call returns or raises, every sleep
   ends and the event loop runs a task that is ready: a step that is
   possible is eventually taken. *)
SpecFair == Spec /\ WF_vars(Next)

(* ------------------------------------------------------------------ *)
(* Properties of chunk_text (SpecChunk)                               *)
(* ------------------------------------------------------------------ *)
ChunkUnits(c) == { c.source_units[k] : k \in 1..Len(c.source_units) }

LinesOfUnit(u) == u.line_start .. u.line_end

LinesOfRanges(rs) == UNION { rs[k][1] .. rs[k][2] : k \in 1..Len(rs) }

(* The unit whose arrival closed chunk c (c is not the last chunk). *)
NextUnitAfter(c) == units[Last(c.source_units) + 1]

ClosedByOverflow(c) ==
    Len(c.content) + 2 + Len(NextUnitAfter(c).text) > MaxDynamicSize

(* The longest unit the chunk holds or that overflowed it. *)
LongestUnitLen(c) ==
    LET lens == { Len(units[k].text) : k \in ChunkUnits(c) }
                \cup { Len(NextUnitAfter(c).text) }
    IN  CHOOSE m \in lens : \A x \in lens : x <= m

(* C3 as stated: every chunk other than the first and the last of its
   document has MIN_DYNAMIC_SIZE <= len(content) <= MAX_DYNAMIC_SIZE +
   the length of one overflowing unit. *)
C3_AsStated ==
    ct_pc = "returned" =>
        \A j \in 2..(Len(chunks) - 1) :
            /\ MinDynamicSize <= Len(chunks[j].content)
            /\ Len(chunks[j].content) <= MaxDynamicSize + LongestUnitLen(chunks[j])

(* C3 amended: every chunk closed by the scan (every chunk but the last)
   has len(content) >= MIN_DYNAMIC_SIZE - 2 unless the next unit would have
   overflowed it (len(content) + 2 + len(next unit) > MAX_DYNAMIC_SIZE), and
   every chunk of three or more units has len(content) <= MAX_DYNAMIC_SIZE. *)
C3_SizeBounds ==
    \A j \in 1..Len(chunks) :
        /\ (j < Len(chunks) \/ ct_pc = "scan") =>
              \/ Len(chunks[j].content) >= MinDynamicSize - 2
              \/ ClosedByOverflow(chunks[j])
        /\ Len(chunks[j].source_units) >= 3 =>
              Len(chunks[j].content) <= MaxDynamicSize

(* A document of three or more chunks has been chunked whose second chunk
   is shorter than MIN_DYNAMIC_SIZE although no overflow closed it. *)
C3_Witness ==
    /\ ct_pc = "returned"
    /\ Len(chunks) >= 3
    /\ ~ClosedByOverflow(chunks[2])
    /\ Len(chunks[2].content) < MinDynamicSize

(* C4: no units give no chunks; one unit gives exactly one chunk holding
   that unit's text, header_path and [(line_start, line_end)]; neither path
   issues an embedding request. *)
C4_ShortDocuments ==
    (ct_pc = "returned" /\ Len(units) <= 1) =>
        /\ embed_requests = 0
        /\ units = << >> => chunks = << >>
        /\ Len(units) = 1 =>
              /\ Len(chunks) = 1
              /\ chunks[1].content = units[1].text
              /\ chunks[1].header_path = units[1].header_path
              /\ chunks[1].line_ranges = << << units[1].line_start, units[1].line_end >> >>

(* A one-unit document spanning two lines has been chunked. *)
C4_Witness ==
    /\ ct_pc = "returned"
    /\ Len(units) = 1
    /\ units[1].line_end > units[1].line_start
    /\ Len(chunks) = 1

(* C5: every line of every unit a chunk was built from lies inside one of
   the intervals of the chunk's line_ranges. *)
C5_UnitLinesCovered ==
    \A j \in 1..Len(chunks) :
        \A k \in ChunkUnits(chunks[j]) :
            \A l \in LinesOfUnit(units[k]) :
                \E r \in 1..Len(chunks[j].line_ranges) :
                    /\ chunks[j].line_ranges[r][1] <= l
                    /\ l <= chunks[j].line_ranges[r][2]

(* A chunk of three units whose spans merged into two intervals. *)
C5_Witness ==
    \E j \in 1..Len(chunks) :
        /\ Len(chunks[j].source_units) = 3
        /\ Len(chunks[j].line_ranges) = 2

(* C6: line_ranges is sorted by start, every interval has start <= end,
   consecutive intervals (a,b),(c,d) have c > b + 1, and the lines covered
   are exactly the union of the units' line spans. *)
C6_RangesMergedMinimal ==
    \A j \in 1..Len(chunks) :
        LET rs == chunks[j].line_ranges
        IN  /\ \A r \in 1..Len(rs) : rs[r][1] <= rs[r][2]
            /\ \A r \in 1..(Len(rs) - 1) :
                  /\ rs[r][1] <= rs[r + 1][1]
                  /\ rs[r + 1][1] > rs[r][2] + 1
            /\ LinesOfRanges(rs) =
                  UNION { LinesOfUnit(units[k]) : k \in ChunkUnits(chunks[j]) }

(* A chunk in which two units on adjacent lines merged into one interval
   while a third unit stayed apart. *)
C6_Witness ==
    \E j \in 1..Len(chunks) :
        /\ Len(chunks[j].line_ranges) = 2
        /\ \E k \in ChunkUnits(chunks[j]) :
              /\ k + 1 \in ChunkUnits(chunks[j])
              /\ units[k + 1].line_start = units[k].line_end + 1

(* ------------------------------------------------------------------ *)
(* Properties of get_embeddings (SpecEmb)                             *)
(* ------------------------------------------------------------------ *)
(* C10: the list returned is index-aligned with the input texts: its i-th
   entry is the embedding of the i-th text, for every batch size and every
   order of completion of the batch requests. *)
C10_IndexAligned ==
    ge_pc = "returned" =>
        /\ Len(all_embeddings) = Len(ge_texts)
        /\ \A i \in 1..Len(ge_texts) :
              all_embeddings[i] = ServiceEmbedding(ReplaceNewlines(ge_texts[i]))

(* A call returned whose later batch completed before its first one and
   whose first and last texts differ. *)
C10_Witness ==
    /\ ge_pc = "returned"
    /\ Len(ge_order) >= 2
    /\ ge_order[1] > ge_order[2]
    /\ ge_texts[1] # ge_texts[Len(ge_texts)]

(* ------------------------------------------------------------------ *)
(* Properties of process_and_save (Spec)                              *)
(* ------------------------------------------------------------------ *)
NumChunks == Len(all_chunks_data)

Exhausted(k) == items[k + 1].pc = "saved" /\ items[k + 1].all_raised

FailureRecordsOf(k) ==
    { j \in 1..Len(failed_enrichments) : failed_enrichments[j].chunk_index = k }

HasEmptyMetadata(rec) ==
    /\ rec.summary = << >>
    /\ rec.hypothetical_questions = << >>
    /\ rec.keywords = << >>

(* The chunks chunk_text returned for document f, as _process_file left
   them, and the number of chunks of the documents found before f. *)
ChunksOfFile(f) ==
    Concat([t \in 1..Len(file_tasks) |->
               IF file_tasks[t].file = f THEN file_tasks[t].result ELSE << >>])

ChunksBefore(f) ==
    SumSeq([t \in 1..Len(file_tasks) |->
               IF file_tasks[t].file < f THEN Len(file_tasks[t].result) ELSE 0])

(* C1: an item whose extraction call raised on each of its MAX_RETRIES
   attempts is saved with the empty metadata and has exactly one failure
   record, with chunk_index equal to its index; it never ends the run,
   every item of the batch awaited is in a call, asleep before its next
   attempt or saved, and a run that is done has persisted every item of
   every batch. *)
C1_ExhaustedItemIsolated ==
    /\ \A k \in 0..(Len(items) - 1) :
          Exhausted(k) =>
             /\ (k + 1) \in DOMAIN files
             /\ HasEmptyMetadata(files[k + 1])
             /\ Cardinality(FailureRecordsOf(k)) = 1
             /\ pas_pc \in {"await_batch", "dispatch", "done"}
    /\ pas_pc = "await_batch" =>
          \A g \in BatchOf(batch_i) : items[g + 1].pc \in {"call", "sleep", "saved"}
    /\ pas_pc = "done" =>
          /\ DOMAIN files = 1..NumChunks
          /\ \A g \in 0..(NumChunks - 1) : items[g + 1].pc = "saved"

(* A finished run in which the first item was exhausted while an item of
   its batch and an item of a later batch were saved with metadata. *)
C1_Witness ==
    /\ pas_pc = "done"
    /\ NumChunks > EnrichBatchSize
    /\ Exhausted(0)
    /\ ~HasEmptyMetadata(files[2])
    /\ ~HasEmptyMetadata(files[NumChunks])

(* C2 as stated: a failing embedding call is retried and downgraded to a
   recorded failure; it never ends process_and_save with an error. *)
C2_AsStated == pas_pc # "raised"

(* C7 as stated: when the run is done, chunk_index of every persisted
   record is its 0-based position within its own document and
   global_chunk_index its position over all documents. *)
C7_AsStated ==
    pas_pc = "done" =>
        \A n \in DOMAIN files :
            /\ files[n].global_chunk_index = n - 1
            /\ files[n].chunk_index = (n - 1) - ChunksBefore(files[n].source_file)

(* C8: the global_chunk_index values are 0..N-1 without gaps or duplicates
   (the record in file n has index n-1), in discovery order of the
   documents and then in chunk order within the document, whatever the
   order in which the per-document tasks completed. *)
C8_GlobalIndexDense ==
    /\ \A n \in DOMAIN files :
          LET r == files[n]
              p == (n - 1) - ChunksBefore(r.source_file)
          IN  /\ r.global_chunk_index = n - 1
              /\ 0 <= p
              /\ p < Len(ChunksOfFile(r.source_file))
              /\ r.content = ChunksOfFile(r.source_file)[p + 1].content
              /\ r.line_ranges = ChunksOfFile(r.source_file)[p + 1].line_ranges
    /\ \A m, n \in DOMAIN files : m < n => files[m].source_file <= files[n].source_file
    /\ pas_pc = "done" =>
          /\ DOMAIN files = 1..NumChunks
          /\ { files[n].global_chunk_index : n \in DOMAIN files } = 0..(NumChunks - 1)
          /\ NumChunks = SumSeq([t \in 1..Len(file_tasks) |-> Len(file_tasks[t].result)])

(* A finished run over two documents with chunks, the later of which
   finished chunking first. *)
C8_Witness ==
    /\ pas_pc = "done"
    /\ out_of_order
    /\ NumChunks >= 3
    /\ files[1].source_file # files[NumChunks].source_file

BatchNo(g) == g \div EnrichBatchSize

(* C9: at most ENRICH_BATCH_SIZE extraction tasks are in flight; no item of
   a later batch is dispatched before every item of the earlier batches is
   saved; the progress reported after batch b is the number of items in
   batches 1..b. *)
C9_BatchWaves ==
    /\ Cardinality({ g \in 0..(Len(items) - 1) : items[g + 1].pc \in {"call", "sleep"} })
          <= EnrichBatchSize
    /\ \A g, h \in 0..(Len(items) - 1) :
          (BatchNo(g) < BatchNo(h) /\ items[h + 1].pc # "idle") =>
              (items[g + 1].pc = "saved" /\ (g + 1) \in DOMAIN files)
    /\ \A b \in 1..Len(progress_log) :
          /\ progress_log[b] =
                Cardinality({ g \in 0..(Len(items) - 1) : BatchNo(g) < b })
          /\ \A g \in 0..(Len(items) - 1) : BatchNo(g) < b => items[g + 1].pc = "saved"
    /\ progress = (IF progress_log = << >> THEN 0 ELSE Last(progress_log))

(* A finished run of two batches, the second one shorter, in which an
   item went through all its retries. *)
C9_Witness ==
    /\ pas_pc = "done"
    /\ Len(progress_log) = 2
    /\ progress_log[2] - progress_log[1] < progress_log[1]
    /\ Len(failed_enrichments) >= 1

(* The items of the run for which no attempt gave metadata: every one of
   their MAX_RETRIES attempts raised or answered something that is not a
   ChunkMetadata, and they were saved with the empty metadata. *)
FailedItems ==
    { k \in 0..(NumChunks - 1) :
         (k + 1) \in DOMAIN files /\ HasEmptyMetadata(files[k + 1]) }

(* C11 as stated: when the run is done the failure log holds exactly one
   record for each item whose attempts were exhausted and none for an item
   that succeeded, so the reported count Len(failed_enrichments) is the
   number of failed items. *)
C11_AsStated ==
    pas_pc = "done" =>
        /\ \A k \in 0..(NumChunks - 1) :
              Cardinality(FailureRecordsOf(k)) = (IF k \in FailedItems THEN 1 ELSE 0)
        /\ Len(failed_enrichments) = Cardinality(FailedItems)

(* ------------------------------------------------------------------ *)
(* enrich_chunk_metadata: one call for one chunk                      *)
(* ------------------------------------------------------------------ *)
(* The longest list the extraction service answers with. *)
MaxResponseLen == 6

(* chunk_index = None *)
NoneIndex == -1

(* What the extraction service can answer with when it answers with a
   ChunkMetadata: any number of questions and of keywords, each list
   without repetition so that order and position can be told. *)
ResponsePool ==
    { [summary                |-> << 1 >>,
       hypothetical_questions |-> [j \in 1..nq |-> j],
       keywords               |-> [j \in 1..nk |-> 10 + j]]
        : nq \in 0..MaxResponseLen, nk \in 0..MaxResponseLen }

(* One entry of the history of calls. *)
Outcome(kind, raw) == [kind |-> kind, raw |-> raw]

InitEnrich ==
    /\ en_args \in { [chunk_text |-> t, header_path |-> << >>, chunk_index |-> c]
                       : t \in { << 1 >>, << 1, 1 >> }, c \in { NoneIndex, 0 } }
    /\ max_retries \in 0..MaxRetries
    /\ en_pc = "start"
    /\ attempt = 0
    /\ en_history = << >>
    /\ en_sleeps = 0
    /\ en_result = << >>
    /\ k_pc = "idle"
    /\ self_min_dynamic_size = 0
    /\ self_max_dynamic_size = 0
    /\ MuIdle
    /\ ChunkIdle
    /\ EmbIdle
    /\ PasIdle
    /\ SimIdle
    /\ ImgIdle

(* line 319: range(self.max_retries) is not empty; the first call is
   issued *)
EN_FirstCall ==
    /\ en_pc = "start"
    /\ max_retries > 0
    /\ en_pc' = "call"
    /\ UNCHANGED << en_args, max_retries, attempt, en_history, en_sleeps, en_result >>
    /\ UNCHANGED << chunk_vars, emb_vars, pas_vars, mu_vars, cfg_vars, sim_vars, img_vars >>

(* lines 319, 353: range(self.max_retries) is empty *)
EN_NoAttempt ==
    /\ en_pc = "start"
    /\ max_retries <= 0
    /\ en_result' = EmptyMetadata
    /\ en_pc' = "returned"
    /\ UNCHANGED << en_args, max_retries, attempt, en_history, en_sleeps >>
    /\ UNCHANGED << chunk_vars, emb_vars, pas_vars, mu_vars, cfg_vars, sim_vars, img_vars >>

(* Mutant: the keywords are returned as the service gave them. *)
EN_ResponseValid_KeywordsUncut ==
    /\ en_pc = "call"
    /\ \E raw \in ResponsePool :
          /\ en_result' = [TruncatedMetadata(raw) EXCEPT !.keywords = raw.keywords]
          /\ en_history' = Append(en_history, Outcome("valid", raw))
    /\ en_pc' = "returned"
    /\ UNCHANGED << en_args, max_retries, attempt, en_sleeps >>
    /\ UNCHANGED << chunk_vars, emb_vars, pas_vars, mu_vars, cfg_vars, sim_vars, img_vars >>

(* lines 321-335: the call answers with a ChunkMetadata *)
EN_ResponseValid ==
    /\ en_pc = "call"
    /\ \E raw \in ResponsePool :
          /\ en_result' = TruncatedMetadata(raw)
          /\ en_history' = Append(en_history, Outcome("valid", raw))
    /\ en_pc' = "returned"
    /\ UNCHANGED << en_args, max_retries, attempt, en_sleeps >>
    /\ UNCHANGED << chunk_vars, emb_vars, pas_vars, mu_vars, cfg_vars, sim_vars, img_vars >>

(* lines 319-330: the answer is not a ChunkMetadata and an attempt is
   left: the next call is issued at once *)
EN_ResponseInvalidRetry ==
    /\ en_pc = "call"
    /\ attempt < max_retries - 1
    /\ attempt' = attempt + 1
    /\ en_history' = Append(en_history, Outcome("invalid", EmptyMetadata))
    /\ UNCHANGED << en_args, max_retries, en_pc, en_sleeps, en_result >>
    /\ UNCHANGED << chunk_vars, emb_vars, pas_vars, mu_vars, cfg_vars, sim_vars, img_vars >>

(* lines 319-330, 353: the answer of the last attempt is not a
   ChunkMetadata *)
EN_ResponseInvalidFinal ==
    /\ en_pc = "call"
    /\ attempt >= max_retries - 1
    /\ en_history' = Append(en_history, Outcome("invalid", EmptyMetadata))
    /\ en_result' = EmptyMetadata
    /\ en_pc' = "returned"
    /\ UNCHANGED << en_args, max_retries, attempt, en_sleeps >>
    /\ UNCHANGED << chunk_vars, emb_vars, pas_vars, mu_vars, cfg_vars, sim_vars, img_vars >>

(* Mutant: the delay is also taken after the last attempt, and another
   call follows it. *)
EN_RaiseRetry_SleepsAfterLast ==
    /\ en_pc = "call"
    /\ attempt < max_retries
    /\ en_history' = Append(en_history, Outcome("raise", EmptyMetadata))
    /\ en_sleeps' = en_sleeps + 1
    /\ en_pc' = "sleep"
    /\ UNCHANGED << en_args, max_retries, attempt, en_result >>
    /\ UNCHANGED << chunk_vars, emb_vars, pas_vars, mu_vars, cfg_vars, sim_vars, img_vars >>

(* lines 337-341: the call raises and an attempt is left *)
EN_RaiseRetry ==
    /\ en_pc = "call"
    /\ attempt < max_retries - 1
    /\ en_history' = Append(en_history, Outcome("raise", EmptyMetadata))
    /\ en_sleeps' = en_sleeps + 1
    /\ en_pc' = "sleep"
    /\ UNCHANGED << en_args, max_retries, attempt, en_result >>
    /\ UNCHANGED << chunk_vars, emb_vars, pas_vars, mu_vars, cfg_vars, sim_vars, img_vars >>

(* lines 341, 319: the sleep is over; the next call is issued *)
EN_Wake ==
    /\ en_pc = "sleep"
    /\ attempt' = attempt + 1
    /\ en_pc' = "call"
    /\ UNCHANGED << en_args, max_retries, en_history, en_sleeps, en_result >>
    /\ UNCHANGED << chunk_vars, emb_vars, pas_vars, mu_vars, cfg_vars, sim_vars, img_vars >>

(* lines 337-353: the call of the last attempt raises *)
EN_RaiseFinal ==
    /\ en_pc = "call"
    /\ attempt >= max_retries - 1
    /\ en_history' = Append(en_history, Outcome("raise", EmptyMetadata))
    /\ failed_enrichments' =
          Append(failed_enrichments,
                 FailureInfo(en_args.chunk_index, en_args.chunk_text, en_args.header_path))
    /\ en_result' = EmptyMetadata
    /\ en_pc' = "returned"
    /\ UNCHANGED << en_args, max_retries, attempt, en_sleeps >>
    /\ UNCHANGED << md_files, pas_pc, file_tasks, out_of_order, all_chunks_data, batch_i,
                    items, files, file_writes, progress, progress_log >>
    /\ UNCHANGED << chunk_vars, emb_vars, mu_vars, cfg_vars, sim_vars, img_vars >>

NextEnrich ==
    \/ EN_FirstCall
    \/ EN_NoAttempt
    \/ EN_ResponseValid
    \/ EN_ResponseInvalidRetry
    \/ EN_ResponseInvalidFinal
    \/ EN_RaiseRetry
    \/ EN_Wake
    \/ EN_RaiseFinal

SpecEnrich == InitEnrich /\ [][NextEnrich]_vars

(* Every call of the extraction service returns or raises, and
   asyncio.sleep(1) ends: a step that is possible is eventually taken. *)
SpecEnrichFair == SpecEnrich /\ WF_vars(NextEnrich)

(* C12: every result returned has at most 4 hypothetical_questions and at
   most 5 keywords; when the call that ended the loop answered a
   ChunkMetadata, the lists returned are the first 4 questions and the
   first 5 keywords of that answer, in their order, and the summary is the
   answer's. *)
C12_ListsTruncated ==
    en_pc = "returned" =>
        /\ Len(en_result.hypothetical_questions) <= 4
        /\ Len(en_result.keywords) <= 5
        /\ (en_history # << >> /\ Last(en_history).kind = "valid") =>
              LET raw == Last(en_history).raw
              IN  /\ en_result.summary = raw.summary
                  /\ Len(en_result.hypothetical_questions) =
                        Min(4, Len(raw.hypothetical_questions))
                  /\ Len(en_result.keywords) = Min(5, Len(raw.keywords))
                  /\ \A j \in 1..Len(en_result.hypothetical_questions) :
                        en_result.hypothetical_questions[j] = raw.hypothetical_questions[j]
                  /\ \A j \in 1..Len(en_result.keywords) :
                        en_result.keywords[j] = raw.keywords[j]

(* A call returned after a retry whose answer held more than 4 questions
   and more than 5 keywords. *)
C12_Witness ==
    /\ en_pc = "returned"
    /\ Len(en_history) >= 2
    /\ Last(en_history).kind = "valid"
    /\ Len(Last(en_history).raw.hypothetical_questions) > 4
    /\ Len(Last(en_history).raw.keywords) > 5
    /\ Len(en_result.keywords) = 5

(* ------------------------------------------------------------------ *)
(* Chunker.__init__ and chunk_text under the thresholds it stored      *)
(* ------------------------------------------------------------------ *)
(* Values given to the constructor for min_dynamic_size and
   max_dynamic_size. *)
CfgSizes == { 2, 4, 7, 9 }

(* The documents chunked by the constructed Chunker, as units. *)
CfgDocs ==
    { BuildUnits(<< Shape("text", 3, 1, 2) >>),
      BuildUnits(<< Shape("header", 1, 0, 2), Shape("table", 8, 1, 2) >>),
      BuildUnits(<< Shape("text", 3, 1, 2), Shape("text", 3, 1, 2),
                    Shape("text", 1, 0, 2) >>) }

(* The condition of line 287 with the thresholds of lines 274-275. *)
ClosesChunkWith(us, sims, cu, i, MIN_DYNAMIC_SIZE, MAX_DYNAMIC_SIZE) ==
    \/ /\ IsTopicShift(sims[i + 1], Percentile40x5(sims))
       /\ CurrentTextLen(us, cu) >= MIN_DYNAMIC_SIZE
    \/ CurrentTextLen(us, cu) + Len(us[i + 2].text) > MAX_DYNAMIC_SIZE

(* The scan of lines 277-314 with the thresholds of lines 274-275. *)
RECURSIVE ScanWith(_, _, _, _, _, _, _)
ScanWith(us, sims, i, cu, out, MIN_DYNAMIC_SIZE, MAX_DYNAMIC_SIZE) ==
    IF i = Len(sims)
    THEN IF cu # << >> THEN Append(out, MakeChunk(us, cu)) ELSE out
    ELSE IF ClosesChunkWith(us, sims, cu, i, MIN_DYNAMIC_SIZE, MAX_DYNAMIC_SIZE)
         THEN ScanWith(us, sims, i + 1, SeedAfterClose(us, cu, i + 2),
                       Append(out, MakeChunk(us, cu)), MIN_DYNAMIC_SIZE, MAX_DYNAMIC_SIZE)
         ELSE ScanWith(us, sims, i + 1, Append(cu, i + 2), out,
                       MIN_DYNAMIC_SIZE, MAX_DYNAMIC_SIZE)

(* chunk_text(content) of a Chunker whose attributes are min_size and
   max_size; the arguments max_dynamic_size and min_dynamic_size are None. *)
ChunkTextWith(us, sims, min_size, max_size) ==
    IF us = << >> THEN << >>
    ELSE IF Len(us) = 1 THEN << MakeChunk(us, << 1 >>) >>
    ELSE IF sims = << >> THEN [k \in 1..Len(us) |-> MakeChunk(us, << k >>)]
    ELSE ScanWith(us, sims, 0, << 1 >>, << >>, min_size, max_size)

InitCfg ==
    /\ k_pc = "constructing"
    /\ self_min_dynamic_size = 0
    /\ self_max_dynamic_size = 0
    /\ units \in CfgDocs
    /\ ct_pc = "idle"
    /\ similarities = << >>
    /\ scan_i = 0
    /\ current_chunk_units = << >>
    /\ chunks = << >>
    /\ embed_requests = 0
    /\ MuIdle
    /\ EnIdle
    /\ EmbIdle
    /\ PasIdle
    /\ SimIdle
    /\ ImgIdle

(* lines 33-61: the constructor stores the thresholds it is given *)
K_Construct ==
    /\ k_pc = "constructing"
    /\ \E min_dynamic_size \in CfgSizes, max_dynamic_size \in CfgSizes :
          /\ self_min_dynamic_size' = min_dynamic_size
          /\ self_max_dynamic_size' = max_dynamic_size
    /\ k_pc' = "constructed"
    /\ UNCHANGED << chunk_vars, emb_vars, pas_vars, mu_vars, en_vars, sim_vars, img_vars >>

(* lines 219-316: chunk_text runs to its return with the stored
   thresholds *)
K_ChunkText ==
    /\ k_pc = "constructed"
    /\ \E sims \in SimSeqs(Max(Len(units) - 1, 0)) :
          /\ similarities' = sims
          /\ chunks' = ChunkTextWith(units, sims, self_min_dynamic_size,
                                     self_max_dynamic_size)
    /\ ct_pc' = "returned"
    /\ k_pc' = "chunked"
    /\ UNCHANGED << units, scan_i, current_chunk_units, embed_requests >>
    /\ UNCHANGED << self_min_dynamic_size, self_max_dynamic_size >>
    /\ UNCHANGED << emb_vars, pas_vars, mu_vars, en_vars, sim_vars, img_vars >>

(* line 255: get_embeddings raises inside chunk_text *)
K_ChunkTextRaise ==
    /\ k_pc = "constructed"
    /\ Len(units) >= 2
    /\ ct_pc' = "raised"
    /\ k_pc' = "chunked"
    /\ UNCHANGED << units, similarities, scan_i, current_chunk_units, chunks,
                    embed_requests >>
    /\ UNCHANGED << self_min_dynamic_size, self_max_dynamic_size >>
    /\ UNCHANGED << emb_vars, pas_vars, mu_vars, en_vars, sim_vars, img_vars >>

NextCfg ==
    \/ K_Construct
    \/ K_ChunkText
    \/ K_ChunkTextRaise

SpecInit == InitCfg /\ [][NextCfg]_vars

(* C13 as stated: a Chunker whose min_dynamic_size exceeds its
   max_dynamic_size never chunks a document: the configuration is
   rejected before chunk_text applies it. *)
C13_AsStated ==
    (k_pc = "chunked" /\ ct_pc = "returned") =>
        self_min_dynamic_size <= self_max_dynamic_size

(* ------------------------------------------------------------------ *)
(* get_markdown_units: one call on one document                       *)
(* ------------------------------------------------------------------ *)
(* A document is a sequence of characters; offsets are 0-based as in
   the source. *)
NL == "\n"

MaxParts == 3
LongParagraphLength == 5

IsSpace(ch) == ch \in { " ", NL }

Ch(s, i) == s[i + 1]

(* s[a:b] *)
Slice(s, a, b) == SubSeq(s, a + 1, b)

(* The blank-line parts documents are written from: headers of depth 1
   and 2, a header whose marker is not followed by a space, a header
   with a second line, a table, a paragraph of no more than
   LongParagraphLength characters and longer ones of one, two and three sentences, on one
   line and on two, with a sentence repeated. *)
PartPool ==
    { << "#", " ", "a" >>,
      << "#", "#", " ", "b" >>,
      << "#", "c" >>,
      << "#", " ", "a", NL, "b" >>,
      << "|", "t", "|" >>,
      << "a", ".", NL, "b" >>,
      << "a", ".", " ", "b", "!", " ", "c" >>,
      << "a", " ", "b", ".", NL, "c", " ", "d" >>,
      << "a", ".", "b", NL, "c", "?", " ", "d" >>,
      << "a", "b", "c", "d", "e", "f" >>,
      << "x", ".", NL, "y", ".", " ", "x", "." >> }

(* What separates two parts: a blank line, or blank lines holding
   spaces. *)
SepPool == { << NL, NL >>, << NL, " ", NL, NL, " " >> }

(* What a document starts and ends with: nothing, or blank lines. *)
MarginPool == { [lead |-> << >>, trail |-> << >>],
                [lead |-> << " ", NL, NL >>, trail |-> << NL >>] }

RECURSIVE JoinWith(_, _)
JoinWith(texts, sep) ==
    IF texts = << >> THEN << >>
    ELSE IF Len(texts) = 1 THEN texts[1]
    ELSE texts[1] \o sep \o JoinWith(Tail(texts), sep)

Documents ==
    { m.lead \o JoinWith(ps, sep) \o m.trail :
        m \in MarginPool, sep \in SepPool,
        ps \in UNION { [1..n -> PartPool] : n \in 0..MaxParts } }

(* lines 109-112: line_offsets *)
RECURSIVE LineOffsetsFrom(_, _)
LineOffsetsFrom(c, i) ==
    IF i >= Len(c) THEN << >>
    ELSE (IF Ch(c, i) = NL THEN << i + 1 >> ELSE << >>) \o LineOffsetsFrom(c, i + 1)

LineOffsets(c) == << 0 >> \o LineOffsetsFrom(c, 0)

(* lines 114-117: bisect.bisect_right(line_offsets, char_index) *)
get_line_number(offsets, char_index) ==
    Cardinality({ k \in 1..Len(offsets) : offsets[k] <= char_index })

(* The end of the run of whitespace that starts at offset i. *)
RECURSIVE WsRunEnd(_, _)
WsRunEnd(s, i) ==
    IF i < Len(s) /\ IsSpace(Ch(s, i)) THEN WsRunEnd(s, i + 1) ELSE i

MaxOf(S) == CHOOSE m \in S : \A x \in S : x <= m

MinOf(S) == CHOOSE m \in S : \A x \in S : m <= x

(* The greatest offset of a newline in s[lo:hi], -1 when there is none. *)
LastNewline(s, lo, hi) ==
    LET S == { j \in lo..(hi - 1) : Ch(s, j) = NL }
    IN  IF S = {} THEN -1 ELSE MaxOf(S)

(* re "\n\s*\n" matches at offset i: a newline, then the longest run of
   whitespace that still ends in a newline. *)
IsBlankMatch(c, i) ==
    /\ Ch(c, i) = NL
    /\ LastNewline(c, i + 1, WsRunEnd(c, i + 1)) # -1

BlankMatchEnd(c, i) == LastNewline(c, i + 1, WsRunEnd(c, i + 1)) + 1

(* The start of the first match at or after offset from, -1 when none. *)
FirstBlankMatch(c, from) ==
    LET S == { i \in from..(Len(c) - 1) : IsBlankMatch(c, i) }
    IN  IF S = {} THEN -1 ELSE MinOf(S)

Part(c, start, end) == [start |-> start, end |-> end, text |-> Slice(c, start, end)]

(* Mutant: what follows the last blank line is not made a part. *)
RECURSIVE SplitParts_DropsTail(_, _)
SplitParts_DropsTail(c, last_end) ==
    LET m == FirstBlankMatch(c, last_end)
    IN  IF m = -1
        THEN << >>
        ELSE (IF m > last_end THEN << Part(c, last_end, m) >> ELSE << >>)
             \o SplitParts_DropsTail(c, BlankMatchEnd(c, m))

(* lines 120-129: the parts between the matches of re.finditer *)
RECURSIVE SplitParts(_, _)
SplitParts(c, last_end) ==
    LET m == FirstBlankMatch(c, last_end)
    IN  IF m = -1
        THEN IF last_end < Len(c) THEN << Part(c, last_end, Len(c)) >> ELSE << >>
        ELSE (IF m > last_end THEN << Part(c, last_end, m) >> ELSE << >>)
             \o SplitParts(c, BlankMatchEnd(c, m))

LStrip(s) == Slice(s, WsRunEnd(s, 0), Len(s))

RECURSIVE RStrip(_)
RStrip(s) ==
    IF s # << >> /\ IsSpace(Last(s)) THEN RStrip(SubSeq(s, 1, Len(s) - 1)) ELSE s

Strip(s) == RStrip(LStrip(s))

(* lines 137-150: the stripped part, its offsets and its lines *)
PartInfo(offsets, p) ==
    LET lstripped         == LStrip(p.text)
        leading_ws        == Len(p.text) - Len(lstripped)
        real_start_offset == p.start + leading_ws
        stripped          == RStrip(lstripped)
        real_end_offset   == real_start_offset + Len(stripped)
    IN  [stripped          |-> stripped,
         real_start_offset |-> real_start_offset,
         real_end_offset   |-> real_end_offset,
         part_start_line   |-> get_line_number(offsets, real_start_offset),
         part_end_line     |-> get_line_number(offsets, real_end_offset - 1)]

StartsWith(s, ch) == s # << >> /\ s[1] = ch

(* len(part.split()[0]): the length of the first run of non-whitespace *)
HeaderLevel(part) ==
    LET S == { j \in 0..(Len(part) - 1) : IsSpace(Ch(part, j)) }
    IN  IF S = {} THEN Len(part) ELSE MinOf(S)

RECURSIVE LStripHashes(_)
LStripHashes(s) == IF StartsWith(s, "#") THEN LStripHashes(Tail(s)) ELSE s

(* part.lstrip('#').strip() *)
HeaderText(part) == Strip(LStripHashes(part))

(* Mutant: a header of the same depth is kept below the new one. *)
RECURSIVE PopWhile_KeepsSiblings(_, _)
PopWhile_KeepsSiblings(stack, level) ==
    IF stack # << >> /\ Last(stack)[1] > level
    THEN PopWhile_KeepsSiblings(SubSeq(stack, 1, Len(stack) - 1), level)
    ELSE stack

(* lines 155-156 *)
RECURSIVE PopWhile(_, _)
PopWhile(stack, level) ==
    IF stack # << >> /\ Last(stack)[1] >= level
    THEN PopWhile(SubSeq(stack, 1, Len(stack) - 1), level)
    ELSE stack

PathSep == << " ", ">", " " >>

(* " > ".join([h[1] for h in header_stack]) *)
JoinPath(stack) == JoinWith([k \in 1..Len(stack) |-> stack[k][2]], PathSep)

(* A unit; part is history kept by the model only: the number of the
   part the unit was made from. *)
MdUnit(text, type, header_path, line_start, line_end, part_no) ==
    [text |-> text, type |-> type, header_path |-> header_path,
     line_start |-> line_start, line_end |-> line_end, part |-> part_no]

(* Mutant: only a full stop ends a sentence. *)
IsSentenceBreak_FullStopOnly(part, p) ==
    /\ p >= 1
    /\ p < Len(part)
    /\ IsSpace(Ch(part, p))
    /\ Ch(part, p - 1) = "."

(* re "(?<=[.!?])\s+" matches at offset p of part *)
IsSentenceBreak(part, p) ==
    /\ p >= 1
    /\ p < Len(part)
    /\ IsSpace(Ch(part, p))
    /\ Ch(part, p - 1) \in { ".", "!", "?" }

(* re.split of line 182, from offset start on *)
RECURSIVE SplitSentences(_, _)
SplitSentences(part, start) ==
    LET S == { p \in start..(Len(part) - 1) : IsSentenceBreak(part, p) }
    IN  IF S = {} THEN << Slice(part, start, Len(part)) >>
        ELSE << Slice(part, start, MinOf(S)) >>
             \o SplitSentences(part, WsRunEnd(part, MinOf(S)))

(* Mutant: the search starts at the beginning of the part. *)
Find_FromStart(part, sub, from) ==
    LET S == { p \in 0..(Len(part) - Len(sub)) : Slice(part, p, p + Len(sub)) = sub }
    IN  IF S = {} THEN -1 ELSE MinOf(S)

(* part.find(sub, from) *)
Find(part, sub, from) ==
    LET S == { p \in from..(Len(part) - Len(sub)) : Slice(part, p, p + Len(sub)) = sub }
    IN  IF S = {} THEN -1 ELSE MinOf(S)

(* lines 184-207: the loop over the sentences from the k-th on *)
RECURSIVE SentenceLoop(_, _, _, _, _, _, _)
SentenceLoop(offsets, info, path, sentences, k, current_rel_pos, part_no) ==
    IF k > Len(sentences) THEN << >>
    ELSE LET s == sentences[k]
         IN  IF Strip(s) = << >>
             THEN SentenceLoop(offsets, info, path, sentences, k + 1,
                               current_rel_pos + Len(s), part_no)
             ELSE LET s_stripped     == Strip(s)
                      found          == Find(info.stripped, s_stripped, current_rel_pos)
                      found_pos      == IF found = -1 THEN current_rel_pos ELSE found
                      s_start_offset == info.real_start_offset + found_pos
                      s_end_offset   == s_start_offset + Len(s_stripped)
                  IN  << MdUnit(s_stripped, "text", path,
                                get_line_number(offsets, s_start_offset),
                                get_line_number(offsets, s_end_offset - 1), part_no) >>
                      \o SentenceLoop(offsets, info, path, sentences, k + 1,
                                      found_pos + Len(s_stripped), part_no)

(* The part the loop of line 134 is at, stripped. *)
CurPart == PartInfo(line_offsets, parts[part_i + 1])

(* part.lstrip().rstrip() of that part *)
CurStripped == Strip(parts[part_i + 1].text)

InitUnits ==
    /\ content \in Documents
    /\ line_offsets = << >>
    /\ mu_pc = "start"
    /\ parts = << >>
    /\ part_i = 0
    /\ header_stack = << >>
    /\ current_header_path = << >>
    /\ md_units = << >>
    /\ EnIdle
    /\ CfgIdle
    /\ ChunkIdle
    /\ EmbIdle
    /\ PasIdle
    /\ SimIdle
    /\ ImgIdle

(* lines 105-132: the line offsets and the parts are computed *)
MU_Split ==
    /\ mu_pc = "start"
    /\ line_offsets' = LineOffsets(content)
    /\ parts' = SplitParts(content, 0)
    /\ mu_pc' = "loop"
    /\ UNCHANGED << content, part_i, header_stack, current_header_path, md_units >>
    /\ UNCHANGED << chunk_vars, emb_vars, pas_vars, en_vars, cfg_vars, sim_vars, img_vars >>

(* lines 137-147: a part of whitespace only is skipped *)
MU_SkipBlank ==
    /\ mu_pc = "loop"
    /\ part_i < Len(parts)
    /\ CurStripped = << >>
    /\ part_i' = part_i + 1
    /\ UNCHANGED << content, line_offsets, mu_pc, parts, header_stack, current_header_path,
                    md_units >>
    /\ UNCHANGED << chunk_vars, emb_vars, pas_vars, en_vars, cfg_vars, sim_vars, img_vars >>

(* Mutant: a header unit carries the path that was active before it. *)
MU_Header_PathBeforePush ==
    /\ mu_pc = "loop"
    /\ part_i < Len(parts)
    /\ CurStripped # << >>
    /\ StartsWith(CurStripped, "#")
    /\ LET part     == CurPart.stripped
           level    == HeaderLevel(part)
           pushed   == Append(PopWhile(header_stack, level), << level, HeaderText(part) >>)
       IN  /\ header_stack' = pushed
           /\ current_header_path' = JoinPath(pushed)
           /\ md_units' = Append(md_units,
                 MdUnit(part, "header", JoinPath(header_stack), CurPart.part_start_line,
                        CurPart.part_end_line, part_i + 1))
    /\ part_i' = part_i + 1
    /\ UNCHANGED << content, line_offsets, mu_pc, parts >>
    /\ UNCHANGED << chunk_vars, emb_vars, pas_vars, en_vars, cfg_vars, sim_vars, img_vars >>

(* lines 153-167: a header part *)
MU_Header ==
    /\ mu_pc = "loop"
    /\ part_i < Len(parts)
    /\ CurStripped # << >>
    /\ StartsWith(CurStripped, "#")
    /\ LET part     == CurPart.stripped
           level    == HeaderLevel(part)
           pushed   == Append(PopWhile(header_stack, level), << level, HeaderText(part) >>)
       IN  /\ header_stack' = pushed
           /\ current_header_path' = JoinPath(pushed)
           /\ md_units' = Append(md_units,
                 MdUnit(part, "header", JoinPath(pushed), CurPart.part_start_line,
                        CurPart.part_end_line, part_i + 1))
    /\ part_i' = part_i + 1
    /\ UNCHANGED << content, line_offsets, mu_pc, parts >>
    /\ UNCHANGED << chunk_vars, emb_vars, pas_vars, en_vars, cfg_vars, sim_vars, img_vars >>

(* lines 169-179: a table part *)
MU_Table ==
    /\ mu_pc = "loop"
    /\ part_i < Len(parts)
    /\ CurStripped # << >>
    /\ ~StartsWith(CurStripped, "#")
    /\ StartsWith(CurStripped, "|")
    /\ current_header_path' = JoinPath(header_stack)
    /\ md_units' = Append(md_units,
          MdUnit(CurPart.stripped, "table", JoinPath(header_stack),
                 CurPart.part_start_line, CurPart.part_end_line, part_i + 1))
    /\ part_i' = part_i + 1
    /\ UNCHANGED << content, line_offsets, mu_pc, parts, header_stack >>
    /\ UNCHANGED << chunk_vars, emb_vars, pas_vars, en_vars, cfg_vars, sim_vars, img_vars >>

(* lines 169, 181-207: a paragraph longer than long_paragraph_length is
   split into its sentences *)
MU_LongParagraph ==
    /\ mu_pc = "loop"
    /\ part_i < Len(parts)
    /\ CurStripped # << >>
    /\ ~StartsWith(CurStripped, "#")
    /\ ~StartsWith(CurStripped, "|")
    /\ Len(CurStripped) > LongParagraphLength
    /\ current_header_path' = JoinPath(header_stack)
    /\ md_units' = md_units \o
          SentenceLoop(line_offsets, CurPart, JoinPath(header_stack),
                       SplitSentences(CurPart.stripped, 0), 1, 0, part_i + 1)
    /\ part_i' = part_i + 1
    /\ UNCHANGED << content, line_offsets, mu_pc, parts, header_stack >>
    /\ UNCHANGED << chunk_vars, emb_vars, pas_vars, en_vars, cfg_vars, sim_vars, img_vars >>

(* lines 169, 208-215: a paragraph that is not longer *)
MU_ShortParagraph ==
    /\ mu_pc = "loop"
    /\ part_i < Len(parts)
    /\ CurStripped # << >>
    /\ ~StartsWith(CurStripped, "#")
    /\ ~StartsWith(CurStripped, "|")
    /\ Len(CurStripped) <= LongParagraphLength
    /\ current_header_path' = JoinPath(header_stack)
    /\ md_units' = Append(md_units,
          MdUnit(CurPart.stripped, "text", JoinPath(header_stack),
                 CurPart.part_start_line, CurPart.part_end_line, part_i + 1))
    /\ part_i' = part_i + 1
    /\ UNCHANGED << content, line_offsets, mu_pc, parts, header_stack >>
    /\ UNCHANGED << chunk_vars, emb_vars, pas_vars, en_vars, cfg_vars, sim_vars, img_vars >>

(* line 217 *)
MU_Return ==
    /\ mu_pc = "loop"
    /\ part_i = Len(parts)
    /\ mu_pc' = "returned"
    /\ UNCHANGED << content, line_offsets, parts, part_i, header_stack,
                    current_header_path, md_units >>
    /\ UNCHANGED << chunk_vars, emb_vars, pas_vars, en_vars, cfg_vars, sim_vars, img_vars >>

NextUnits ==
    \/ MU_Split
    \/ MU_SkipBlank
    \/ MU_Header
    \/ MU_Table
    \/ MU_LongParagraph
    \/ MU_ShortParagraph
    \/ MU_Return

SpecUnits == InitUnits /\ [][NextUnits]_vars

(* ------------------------------------------------------------------ *)
(* Properties of get_markdown_units (SpecUnits)                       *)
(* ------------------------------------------------------------------ *)
(* The entries of stack whose depth is below d, in stack order. *)
RECURSIVE Shallower(_, _)
Shallower(stack, d) ==
    IF stack = << >> THEN << >>
    ELSE (IF Head(stack)[1] < d THEN << Head(stack) >> ELSE << >>)
         \o Shallower(Tail(stack), d)

UnitsOfPart(p) == SelectSeq(md_units, LAMBDA u : u.part = p)

(* C14: at every point of the scan the header stack holds strictly
   increasing depths from bottom to top and the active header_path is
   the texts of the stack joined in stack order; a header part of depth d
   leaves the stack as its entries of depth below d followed by the new
   header. *)
C14_HeaderStack ==
    /\ [](/\ \A k \in 1..(Len(header_stack) - 1) :
                header_stack[k][1] < header_stack[k + 1][1]
          /\ current_header_path =
                JoinWith([k \in 1..Len(header_stack) |-> header_stack[k][2]],
                         << " ", ">", " " >>))
    /\ [][(mu_pc = "loop" /\ part_i' = part_i + 1 /\ StartsWith(CurStripped, "#")) =>
              LET d == HeaderLevel(CurStripped)
              IN  header_stack' =
                     Append(Shallower(header_stack, d), << d, HeaderText(CurStripped) >>)]_vars

(* The third header of a document, of depth 1, has removed the two
   entries of depth 1 and 2 that the stack held. *)
C14_Witness ==
    /\ Len(md_units) = 3
    /\ \A k \in 1..3 : md_units[k].type = "header"
    /\ md_units[2].header_path = << "a", " ", ">", " ", "b" >>
    /\ Len(header_stack) = 1

NotSpace(ch) == ~IsSpace(ch)

(* C15: the units returned are in document order and their texts,
   concatenated in order with all whitespace removed, are the document
   with all whitespace removed. *)
C15_ContentPreserved ==
    mu_pc = "returned" =>
        /\ SelectSeq(Concat([k \in 1..Len(md_units) |-> md_units[k].text]), NotSpace)
              = SelectSeq(content, NotSpace)
        /\ \A k \in 1..(Len(md_units) - 1) :
              /\ md_units[k].part <= md_units[k + 1].part
              /\ md_units[k].line_start <= md_units[k + 1].line_start

(* A document of three parts between blank margins has been split, one
   of its paragraphs into sentences. *)
C15_Witness ==
    /\ mu_pc = "returned"
    /\ Len(parts) >= 3
    /\ IsSpace(content[1])
    /\ IsSpace(Last(content))
    /\ \E k \in 1..(Len(md_units) - 1) : md_units[k].part = md_units[k + 1].part
    /\ \E k \in 1..Len(md_units) : md_units[k].type = "header"

(* The part numbers of the paragraphs handled so far: the parts that are
   not blank and start with neither '#' nor '|'. *)
ParagraphParts ==
    { p \in 1..part_i :
         /\ Strip(parts[p].text) # << >>
         /\ ~StartsWith(Strip(parts[p].text), "#")
         /\ ~StartsWith(Strip(parts[p].text), "|") }

(* The number of sentences of a paragraph: one more than the number of
   places where whitespace follows '.', '?' or '!'. *)
SentenceCount(part) ==
    1 + Cardinality({ p \in 1..(Len(part) - 1) :
                         /\ IsSpace(Ch(part, p))
                         /\ Ch(part, p - 1) \in { ".", "?", "!" } })

LinesOfPart(p) ==
    PartInfo(line_offsets, parts[p]).part_start_line ..
        PartInfo(line_offsets, parts[p]).part_end_line

(* C16: a paragraph longer than the threshold with k sentences gives
   exactly k units, in order, whose line spans together are the lines of
   the paragraph; a paragraph that is not longer gives exactly one unit,
   of the whole part. *)
C16_SentenceUnits ==
    \A p \in ParagraphParts :
        LET part == Strip(parts[p].text)
            us   == UnitsOfPart(p)
        IN  /\ \A k \in 1..Len(us) : us[k].type = "text"
            /\ Len(part) > LongParagraphLength =>
                  /\ Len(us) = SentenceCount(part)
                  /\ SelectSeq(Concat([k \in 1..Len(us) |-> us[k].text]), NotSpace)
                        = SelectSeq(part, NotSpace)
                  /\ \A k \in 1..Len(us) :
                        /\ us[k].text # << >>
                        /\ ~IsSpace(us[k].text[1])
                        /\ ~IsSpace(Last(us[k].text))
                        /\ k < Len(us) => Last(us[k].text) \in { ".", "?", "!" }
                  /\ UNION { us[k].line_start .. us[k].line_end : k \in 1..Len(us) }
                        = LinesOfPart(p)
            /\ Len(part) <= LongParagraphLength =>
                  /\ Len(us) = 1
                  /\ us[1].text = part
                  /\ us[1].line_start .. us[1].line_end = LinesOfPart(p)

(* A paragraph of three sentences over two lines has given three units,
   and a paragraph that is not longer than the threshold one unit of two
   lines. *)
C16_Witness ==
    /\ \E p \in ParagraphParts :
          /\ Len(UnitsOfPart(p)) = 3
          /\ Cardinality(LinesOfPart(p)) = 2
    /\ \E p \in ParagraphParts :
          /\ Len(Strip(parts[p].text)) <= LongParagraphLength
          /\ Cardinality(LinesOfPart(p)) = 2

(* The pairs of consecutive sentence units of one long paragraph. *)
SentencePairs ==
    { k \in 1..(Len(md_units) - 1) :
         /\ md_units[k].part = md_units[k + 1].part
         /\ md_units[k].type = "text" }

(* C17 as stated: for consecutive sentence units s and t of one long
   paragraph, s.line_end < t.line_start. *)
C17_AsStated ==
    \A k \in SentencePairs : md_units[k].line_end < md_units[k + 1].line_start

(* C17 amended: every sentence unit has line_start <= line_end, and for
   consecutive sentence units s and t of one long paragraph
   s.line_end <= t.line_start: the spans are monotonic and two of them
   share at most the line on which s ends and t starts. *)
C17_SpansMonotonic ==
    /\ \A k \in 1..Len(md_units) : md_units[k].line_start <= md_units[k].line_end
    /\ \A k \in SentencePairs : md_units[k].line_end <= md_units[k + 1].line_start

(* A long paragraph with a sentence that ends on the line on which the
   next one starts, and one whose next sentence starts on a later line. *)
C17_Witness ==
    /\ \E k \in SentencePairs : md_units[k].line_end = md_units[k + 1].line_start
    /\ \E k \in SentencePairs :
          /\ md_units[k].line_start < md_units[k].line_end
          /\ md_units[k].line_end = md_units[k + 1].line_start
    /\ \E k \in SentencePairs : md_units[k].line_end < md_units[k + 1].line_start

(* ------------------------------------------------------------------ *)
(* Properties of the boundary scan of chunk_text (SpecChunk)          *)
(* ------------------------------------------------------------------ *)
(* L of the open chunk: the sum over its units of len(text) + 2. *)
OpenChunkL ==
    SumSeq([k \in 1..Len(current_chunk_units) |->
               Len(units[current_chunk_units[k]].text) + 2])

(* The scan is about to decide the pair of units i and i+1. *)
AtPair == ct_pc = "scan" /\ scan_i < Len(similarities)

(* C18: at the pair (i, i+1) the open chunk is closed and emitted exactly
   when (sim_i < threshold and L >= MIN_DYNAMIC_SIZE) or
   (L + len(text of unit i+1) > MAX_DYNAMIC_SIZE); otherwise unit i+1 is
   appended to the open chunk and nothing is emitted.  The chunk emitted
   holds the texts of the open chunk joined by a blank line and the
   header_path of its first unit. *)
C18_CloseCondition ==
    /\ [](\A j \in 1..Len(chunks) :
             /\ chunks[j].content =
                   JoinWith([k \in 1..Len(chunks[j].source_units) |->
                                units[chunks[j].source_units[k]].text], << 0, 0 >>)
             /\ chunks[j].header_path = units[chunks[j].source_units[1]].header_path)
    /\ [][AtPair =>
            LET sim      == similarities[scan_i + 1]
                next     == units[scan_i + 2]
                closes   == \/ /\ IsTopicShift(sim, Percentile40x5(similarities))
                               /\ OpenChunkL >= MinDynamicSize
                            \/ OpenChunkL + Len(next.text) > MaxDynamicSize
            IN  IF closes
                THEN /\ Len(chunks') = Len(chunks) + 1
                     /\ SubSeq(chunks', 1, Len(chunks)) = chunks
                     /\ Last(chunks').content =
                           JoinWith([k \in 1..Len(current_chunk_units) |->
                                        units[current_chunk_units[k]].text], << 0, 0 >>)
                     /\ Last(chunks').header_path =
                           units[current_chunk_units[1]].header_path
                     /\ Last(chunks').source_units = current_chunk_units
                ELSE /\ chunks' = chunks
                     /\ current_chunk_units' = Append(current_chunk_units, scan_i + 2)]_vars

(* A chunk was closed by a topic shift alone, after a header, and the
   unit after the next one was then appended to the new open chunk. *)
C18_Witness ==
    /\ ct_pc = "returned"
    /\ Len(chunks) = 2
    /\ ~ClosedByOverflow(chunks[1])
    /\ chunks[2].source_units = << 2, 3 >>

(* C19: when a chunk is closed before unit i+1, the next open chunk is
   [last unit of the closed chunk, unit i+1] if that last unit is not a
   header and [unit i+1] alone if it is; no header unit is in two chunks. *)
C19_CarryOver ==
    /\ [][(AtPair /\ chunks' # chunks) =>
             current_chunk_units' =
                (IF units[Last(current_chunk_units)].type = "header"
                 THEN << scan_i + 2 >>
                 ELSE << Last(current_chunk_units), scan_i + 2 >>)]_vars
    /\ [](\A k \in 1..Len(units) :
             units[k].type = "header" =>
                Cardinality({ j \in 1..Len(chunks) : k \in ChunkUnits(chunks[j]) }) <= 1)

(* A text unit was carried over into the second chunk, and the header
   that ended the second chunk was not carried over into the third. *)
C19_Witness ==
    /\ ct_pc = "returned"
    /\ Len(chunks) = 3
    /\ units[1].type = "text"
    /\ units[2].type = "header"
    /\ chunks[2].source_units = << 1, 2 >>
    /\ chunks[3].source_units = << 3 >>

(* C20: for a document of two or more units the chunk left open by the
   scan is always emitted, so the result is not empty and the last unit of
   the document is the last unit of the last chunk, whose content ends
   with that unit's text. *)
C20_FinalChunkEmitted ==
    (ct_pc = "returned" /\ Len(units) >= 2) =>
        /\ chunks # << >>
        /\ Last(Last(chunks).source_units) = Len(units)
        /\ LET c == Last(chunks).content
               t == Last(units).text
           IN  /\ Len(c) >= Len(t)
               /\ SubSeq(c, Len(c) - Len(t) + 1, Len(c)) = t

(* A document of three units was chunked and its last chunk, made of
   the last unit alone, is shorter than MIN_DYNAMIC_SIZE. *)
C20_Witness ==
    /\ ct_pc = "returned"
    /\ Len(units) = 3
    /\ Last(chunks).source_units = << 3 >>
    /\ Len(Last(chunks).content) + 2 < MinDynamicSize

(* ------------------------------------------------------------------ *)
(* Bounded retry of enrich_chunk_metadata                              *)
(* ------------------------------------------------------------------ *)

(* The calls issued so far: those that answered or raised, and the one
   that is awaited. *)
CallsIssued == Len(en_history) + (IF en_pc = "call" THEN 1 ELSE 0)

RaisedCalls == { j \in 1..Len(en_history) : en_history[j].kind = "raise" }

C21_Bounded ==
    /\ CallsIssued <= max_retries
    /\ \A j \in 1..Len(en_history) :
          en_history[j].kind = "valid" => j = Len(en_history) /\ en_pc = "returned"
    /\ en_sleeps = Cardinality({ j \in RaisedCalls : j < max_retries })
    /\ en_sleeps <= Max(max_retries - 1, 0)
    /\ en_pc = "sleep" =>
          /\ Len(en_history) \in RaisedCalls
          /\ Len(en_history) < max_retries
    /\ en_pc = "returned" => en_sleeps <= Max(Len(en_history) - 1, 0)

C21_DelayThenCall ==
    /\ en_sleeps' # en_sleeps => en_pc = "call" /\ en_pc' = "sleep" /\ en_sleeps' = en_sleeps + 1
    /\ en_pc = "sleep" /\ en_pc' # "sleep" => en_pc' = "call" /\ en_history' = en_history
    /\ en_pc = "returned" => en_pc' = "returned" /\ en_history' = en_history

(* C21: enrich_chunk_metadata issues at most max_retries calls and none
   after the first call that answers with a ChunkMetadata; it sleeps only
   after a call that raised and before the next call, so at most
   max_retries - 1 times and never after the last attempt; and, every
   call returning or raising, it always returns. *)
C21_BoundedRetry ==
    /\ [](C21_Bounded)
    /\ [][C21_DelayThenCall]_vars
    /\ <>(en_pc = "returned")

C21_Witness ==
    /\ en_pc = "returned"
    /\ max_retries = MaxRetries
    /\ Len(en_history) = MaxRetries
    /\ RaisedCalls = 1..MaxRetries
    /\ en_sleeps = MaxRetries - 1

(* ------------------------------------------------------------------ *)
(* chunk_text, lines 255-283: similarities, threshold and topic shifts *)
(* of given embeddings                                                 *)
(* ------------------------------------------------------------------ *)

MaxEmbeddings == 5

(* line 255: one vector per unit, for two or more units *)
InitSim ==
    /\ \E n \in 2..MaxEmbeddings : embeddings \in EmbeddingSeqs(n)
    /\ sim_pc = "start"
    /\ threshold = 0
    /\ is_topic_shift = << >>
    /\ ChunkIdle
    /\ EmbIdle
    /\ PasIdle
    /\ MuIdle
    /\ EnIdle
    /\ CfgIdle
    /\ ImgIdle

(* lines 257-260 *)
S_Similarities ==
    /\ sim_pc = "start"
    /\ similarities' = Similarities(embeddings)
    /\ sim_pc' = "similarities"
    /\ UNCHANGED << embeddings, threshold, is_topic_shift >>
    /\ UNCHANGED << units, ct_pc, scan_i, current_chunk_units, chunks, embed_requests >>
    /\ UNCHANGED << emb_vars, pas_vars, mu_vars, en_vars, cfg_vars, img_vars >>

(* lines 262, 269: the list is not empty; the threshold is taken *)
S_Threshold ==
    /\ sim_pc = "similarities"
    /\ similarities # << >>
    /\ threshold' = Percentile40x5(similarities)
    /\ sim_pc' = "scan"
    /\ UNCHANGED << embeddings, is_topic_shift >>
    /\ UNCHANGED << chunk_vars, emb_vars, pas_vars, mu_vars, en_vars, cfg_vars, img_vars >>

(* lines 277-283: one iteration of the scan *)
S_TopicShift ==
    /\ sim_pc = "scan"
    /\ Len(is_topic_shift) < Len(similarities)
    /\ is_topic_shift' =
          Append(is_topic_shift,
                 IsTopicShift(similarities[Len(is_topic_shift) + 1], threshold))
    /\ UNCHANGED << embeddings, sim_pc, threshold >>
    /\ UNCHANGED << chunk_vars, emb_vars, pas_vars, mu_vars, en_vars, cfg_vars, img_vars >>

(* line 277: range(len(similarities)) is exhausted *)
S_ScanEnd ==
    /\ sim_pc = "scan"
    /\ Len(is_topic_shift) = Len(similarities)
    /\ sim_pc' = "done"
    /\ UNCHANGED << embeddings, threshold, is_topic_shift >>
    /\ UNCHANGED << chunk_vars, emb_vars, pas_vars, mu_vars, en_vars, cfg_vars, img_vars >>

NextSim ==
    \/ S_Similarities
    \/ S_Threshold
    \/ S_TopicShift
    \/ S_ScanEnd

SpecSim == InitSim /\ [][NextSim]_vars

ZeroNorm(v) == NormSq(v) = 0

ZeroNormPairs ==
    { k \in 1..Len(similarities) : ZeroNorm(embeddings[k]) \/ ZeroNorm(embeddings[k + 1]) }

(* The similarities with 0 in place of those of the zero-norm pairs. *)
SimilaritiesZeroed ==
    [k \in 1..Len(similarities) |-> IF k \in ZeroNormPairs THEN 0 ELSE similarities[k]]

(* C22: the similarity of a pair with a zero-norm embedding is 0, no
   undefined value arises, and the threshold and every is_topic_shift
   are computed with that 0. *)
C22_AsStated ==
    /\ sim_pc \in { "similarities", "scan", "done" } =>
          /\ \A k \in ZeroNormPairs : similarities[k] = 0
          /\ \A k \in 1..Len(similarities) : similarities[k] # NaN
    /\ sim_pc \in { "scan", "done" } =>
          /\ threshold # NaN
          /\ threshold = Percentile40x5(SimilaritiesZeroed)
          /\ \A k \in 1..Len(is_topic_shift) :
                is_topic_shift[k] = IsTopicShift(SimilaritiesZeroed[k], threshold)

(* ------------------------------------------------------------------ *)
(* chunk_text on the units of a document (lines 219-316 after 104-217) *)
(* ------------------------------------------------------------------ *)

MaxDocUnits == 2

(* lines 220-316: chunk_text goes on with the units get_markdown_units
   returned and returns the chunks; documents of at most MaxDocUnits
   units *)
D_ChunkText ==
    /\ mu_pc = "returned"
    /\ ct_pc = "idle"
    /\ Len(md_units) <= MaxDocUnits
    /\ units' = md_units
    /\ \E sims \in SimSeqs(Max(Len(md_units) - 1, 0)) :
          /\ similarities' = sims
          /\ chunks' = ChunkTextResult(md_units, sims)
    /\ ct_pc' = "returned"
    /\ UNCHANGED << scan_i, current_chunk_units, embed_requests >>
    /\ UNCHANGED << emb_vars, pas_vars, mu_vars, en_vars, cfg_vars, sim_vars, img_vars >>

(* line 255: get_embeddings raises inside chunk_text *)
D_ChunkTextRaise ==
    /\ mu_pc = "returned"
    /\ ct_pc = "idle"
    /\ Len(md_units) <= MaxDocUnits
    /\ Len(md_units) >= 2
    /\ units' = md_units
    /\ ct_pc' = "raised"
    /\ UNCHANGED << similarities, scan_i, current_chunk_units, chunks, embed_requests >>
    /\ UNCHANGED << emb_vars, pas_vars, mu_vars, en_vars, cfg_vars, sim_vars, img_vars >>

NextDoc ==
    \/ NextUnits
    \/ D_ChunkText
    \/ D_ChunkTextRaise

SpecDoc == InitUnits /\ [][NextDoc]_vars

(* The number of '#' characters a stripped part begins with. *)
RECURSIVE LeadingHashes(_)
LeadingHashes(s) ==
    IF s # << >> /\ Head(s) = "#" THEN 1 + LeadingHashes(Tail(s)) ELSE 0

(* The text of a header part: what follows its leading '#' characters,
   without the whitespace around it. *)
OwnHeaderText(s) == Strip(SubSeq(s, LeadingHashes(s) + 1, Len(s)))

(* The header stack as left by the header parts among parts 1..p-1. *)
RECURSIVE StackBefore(_)
StackBefore(p) ==
    IF p <= 1 THEN << >>
    ELSE LET t == Strip(parts[p - 1].text)
         IN  IF StartsWith(t, "#")
             THEN Append(Shallower(StackBefore(p - 1), HeaderLevel(t)),
                         << HeaderLevel(t), OwnHeaderText(t) >>)
             ELSE StackBefore(p - 1)

PathOf(stack) ==
    JoinWith([k \in 1..Len(stack) |-> stack[k][2]], << " ", ">", " " >>)

EndsWith(s, t) ==
    /\ Len(s) >= Len(t)
    /\ SubSeq(s, Len(s) - Len(t) + 1, Len(s)) = t

HeaderPartsBefore(p) == { q \in 1..(p - 1) : StartsWith(Strip(parts[q].text), "#") }

(* C23: every table, paragraph and sentence unit carries the path of the
   header stack as left by the header parts before it, which is empty if
   there is none; every header unit carries a path that ends with the
   header's own text; and after chunk_text the units and their paths are
   the ones get_markdown_units returned. *)
C23_HeaderPathOfUnits ==
    /\ \A k \in 1..Len(md_units) :
          LET u == md_units[k]
          IN  IF u.type = "header"
              THEN /\ u.header_path = PathOf(StackBefore(u.part + 1))
                   /\ EndsWith(u.header_path, OwnHeaderText(u.text))
                   /\ \/ u.header_path = OwnHeaderText(u.text)
                      \/ EndsWith(u.header_path,
                                  << " ", ">", " " >> \o OwnHeaderText(u.text))
              ELSE /\ u.header_path = PathOf(StackBefore(u.part))
                   /\ HeaderPartsBefore(u.part) = {} => u.header_path = << >>
    /\ ct_pc \in { "returned", "raised" } =>
          /\ units = md_units
          /\ \A j \in 1..Len(chunks) :
                chunks[j].header_path = md_units[chunks[j].source_units[1]].header_path

(* chunk_text has returned two chunks of a document of three parts: a
   header, a blank part and a table that carries the header's text as
   its path. *)
C23_Witness ==
    /\ ct_pc = "returned"
    /\ Len(chunks) = 2
    /\ Len(parts) = 3
    /\ Len(md_units) = 2
    /\ md_units[1].type = "header"
    /\ md_units[2].type = "table"
    /\ md_units[2].header_path = OwnHeaderText(md_units[1].text)
    /\ chunks[2].header_path = md_units[2].header_path

(* C24: the depth pushed for a header part is the number of '#'
   characters the part begins with, whether or not a space follows
   them. *)
C24_AsStated ==
    (/\ mu_pc \in { "loop", "returned" }
     /\ part_i >= 1
     /\ StartsWith(Strip(parts[part_i].text), "#")) =>
        /\ header_stack # << >>
        /\ Last(header_stack)[1] = LeadingHashes(Strip(parts[part_i].text))

(* C25: enrich_chunk_metadata returns the default empty result for an
   item if and only if a failure record for that item was appended to
   the failure log, for every sequence of outcomes of the attempts and
   every max_retries >= 0. *)
C25_AsStated ==
    en_pc = "returned" =>
        (en_result = EmptyMetadata
            <=> \E j \in 1..Len(failed_enrichments) :
                   failed_enrichments[j] =
                      FailureInfo(en_args.chunk_index, en_args.chunk_text,
                                  en_args.header_path))

(* The chunks that hold unit k. *)
ChunksHolding(k) == { j \in 1..Len(chunks) : k \in ChunkUnits(chunks[j]) }

(* The unit lists of chunks j.. concatenated, without the first unit of
   a chunk when it is the last unit of the chunk before it. *)
RECURSIVE WithoutCarryOvers(_)
WithoutCarryOvers(j) ==
    IF j > Len(chunks) THEN << >>
    ELSE LET cu == chunks[j].source_units
         IN  (IF j > 1 /\ Head(cu) = Last(chunks[j - 1].source_units)
              THEN Tail(cu) ELSE cu)
             \o WithoutCarryOvers(j + 1)

(* C26: the chunks returned by chunk_text cover the units in order:
   every unit is in one or two chunks, a unit in two chunks is the last
   unit of one and the first unit of the next, two consecutive chunks
   share at most one unit, and the unit lists of the chunks without the
   carried-over units are the units of the document in order. *)
C26_UnitsCovered ==
    ct_pc = "returned" =>
        /\ \A j \in 1..Len(chunks) : chunks[j].source_units # << >>
        /\ \A k \in 1..Len(units) :
              /\ Cardinality(ChunksHolding(k)) \in { 1, 2 }
              /\ Cardinality(ChunksHolding(k)) = 2 =>
                    \E j \in 1..(Len(chunks) - 1) :
                       /\ ChunksHolding(k) = { j, j + 1 }
                       /\ Last(chunks[j].source_units) = k
                       /\ Head(chunks[j + 1].source_units) = k
                       /\ Cardinality({ p \in 1..Len(chunks[j].source_units) :
                                           chunks[j].source_units[p] = k }) = 1
        /\ \A j \in 1..(Len(chunks) - 1) :
              Cardinality(ChunkUnits(chunks[j]) \cap ChunkUnits(chunks[j + 1])) <= 1
        /\ WithoutCarryOvers(1) = [k \in 1..Len(units) |-> k]

(* Three units in three chunks: the first unit is carried over into the
   second chunk and the second unit into the third. *)
C26_Witness ==
    /\ ct_pc = "returned"
    /\ Len(units) = 3
    /\ Len(chunks) = 3
    /\ chunks[1].source_units = << 1 >>
    /\ chunks[2].source_units = << 1, 2 >>
    /\ chunks[3].source_units = << 2, 3 >>

(* ------------------------------------------------------------------ *)
(* The topic shifts of a document: lines 255-283 on the embeddings of  *)
(* up to MaxEmbeddings units, and the scan of chunk_text on the units  *)
(* of UnitSeqs                                                         *)
(* ------------------------------------------------------------------ *)

InitShift == InitSim \/ InitChunk

NextShift ==
    \/ NextSim
    \/ NextChunk

SpecShift == InitShift /\ [][NextShift]_vars

(* The pairs whose similarity is strictly below t5 / 5; a comparison
   with nan is false. *)
PairsBelow(sims, t5) ==
    { k \in 1..Len(sims) : sims[k] # NaN /\ t5 # NaN /\ 5 * sims[k] < t5 }

(* ceil(0.4 * (n - 2)) for n >= 2 *)
MostShifts(n) == (2 * (n - 2) + 4) \div 5

AllEqual(sims) == \A j, k \in 1..Len(sims) : sims[j] = sims[k]

(* C27: with the 40th percentile of the n - 1 adjacent similarities of n
   units as threshold, at most ceil(0.4 * (n - 2)) pairs have a
   similarity strictly below it and only those are topic shifts; for two
   units, or when all similarities are equal, no pair is a topic shift
   and a chunk is closed before a unit only by the overflow condition. *)
C27_FewTopicShifts ==
    /\ sim_pc \in { "scan", "done" } =>
          LET n     == Len(embeddings)
              below == PairsBelow(similarities, threshold)
          IN  /\ Len(similarities) = n - 1
              /\ threshold = Percentile40x5(similarities)
              /\ Cardinality(below) <= MostShifts(n)
              /\ (n = 2 \/ AllEqual(similarities)) => below = {}
              /\ \A k \in 1..Len(is_topic_shift) : is_topic_shift[k] <=> k \in below
    /\ (ct_pc \in { "scan", "returned" } /\ similarities # << >>) =>
          LET n     == Len(units)
              below == PairsBelow(similarities, Percentile40x5(similarities))
          IN  /\ Len(similarities) = n - 1
              /\ Cardinality(below) <= MostShifts(n)
              /\ (n = 2 \/ AllEqual(similarities)) =>
                    /\ below = {}
                    /\ \A j \in 1..Len(chunks) :
                          Last(chunks[j].source_units) < n => ClosedByOverflow(chunks[j])
              /\ \A j \in 1..Len(chunks) :
                    (Last(chunks[j].source_units) < n /\ ~ClosedByOverflow(chunks[j]))
                       => Last(chunks[j].source_units) \in below

(* The longest document, none of its embeddings of zero norm, with as
   many topic shifts as the bound allows: for five units
   ceil(0.4 * 3) = 2, as with the similarities 0, 1, 2, 2 and the
   threshold 1.6. *)
C27_Witness ==
    /\ sim_pc = "done"
    /\ Len(embeddings) = MaxEmbeddings
    /\ Cardinality({ k \in 1..Len(is_topic_shift) : is_topic_shift[k] })
          = MostShifts(MaxEmbeddings)
    /\ MostShifts(MaxEmbeddings) >= 1
    /\ \A k \in 1..Len(similarities) : similarities[k] # NaN

(* ------------------------------------------------------------------ *)
(* The files written by process_and_save (Spec)                       *)
(* ------------------------------------------------------------------ *)

(* The chunk records as gather returned them, before any enrichment. *)
GatheredChunks == Concat(FileResults)

(* The metadata enrich_chunk_metadata can return for a chunk of the given
   text: the truncated answer of the service for that text, or the
   default empty metadata. *)
OwnResults(chunk_text) ==
    { TruncatedMetadata(raw) : raw \in ServiceMetadata(chunk_text) } \cup { EmptyMetadata }

MetadataOf(rec) ==
    [summary                |-> rec.summary,
     hypothetical_questions |-> rec.hypothetical_questions,
     keywords               |-> rec.keywords]

(* C28: when process_and_save has completed over N chunks, every chunk g
   of 0..N-1 was written exactly once, to file g+1, with
   global_chunk_index g, its own content and the enrichment result of
   its own text; no other file was written, and a chunk whose enrichment
   failed was written with the default empty metadata. *)
C28_EachChunkSavedOnce ==
    /\ \A n \in DOMAIN file_writes : file_writes[n] = 1
    /\ DOMAIN files = DOMAIN file_writes
    /\ pas_pc = "done" =>
          /\ NumChunks = Len(GatheredChunks)
          /\ DOMAIN files = 1..NumChunks
          /\ \A g \in 0..(NumChunks - 1) :
                /\ files[g + 1].global_chunk_index = g
                /\ files[g + 1].content = GatheredChunks[g + 1].content
                /\ files[g + 1].header_path = GatheredChunks[g + 1].header_path
                /\ MetadataOf(files[g + 1]) \in OwnResults(GatheredChunks[g + 1].content)
                /\ FailureRecordsOf(g) # {} => HasEmptyMetadata(files[g + 1])
                /\ Exhausted(g) => HasEmptyMetadata(files[g + 1])

(* A finished run of two batches in which one chunk failed and was
   written with the empty metadata and another was written with the
   metadata of its own text. *)
C28_Witness ==
    /\ pas_pc = "done"
    /\ NumChunks > EnrichBatchSize
    /\ \E g \in 0..(NumChunks - 1) :
          /\ FailureRecordsOf(g) # {}
          /\ HasEmptyMetadata(files[g + 1])
    /\ \E g \in 0..(NumChunks - 1) :
          /\ ~HasEmptyMetadata(files[g + 1])
          /\ files[g + 1].summary = GatheredChunks[g + 1].content

(* ------------------------------------------------------------------ *)
(* Termination of process_and_save (SpecFair)                         *)
(* ------------------------------------------------------------------ *)

(* The completion summary of lines 413-421 is reached: every document
   was chunked, every batch was dispatched and joined, and the progress
   is the number of chunks. *)
CompletionSummary ==
    /\ pas_pc = "done"
    /\ \A t \in 1..Len(file_tasks) : file_tasks[t].status = "done"
    /\ \A g \in 1..Len(items) : items[g].pc = "saved"
    /\ progress = NumChunks

(* C29: every embedding and extraction call returning or raising,
   process_and_save terminates: every document's chunking finishes,
   every batch is dispatched and joined in order and the run reaches its
   completion summary with the progress equal to the number of chunks.
   A run that finds no chunk at all ends at the early return of line
   389, which is taken as a completion here. *)
C29_AsStated == <>(CompletionSummary \/ pas_pc = "no_chunks")

(* ------------------------------------------------------------------ *)
(* ImageChunker.process_images (src/image_chunking.py)                 *)
(* ------------------------------------------------------------------ *)

MaxImages == 3
ImageBatchSize == 2

(* Image paths, ordered as Path objects are. *)
ImagePool == 1..MaxImages

(* lines 210-214: what the rglob calls give, one path possibly twice *)
Discoveries == UNION { [1..n -> ImagePool] : n \in 0..MaxImages }

(* sorted(set(image_paths)) *)
RECURSIVE SortedSet(_)
SortedSet(S) ==
    IF S = {} THEN << >>
    ELSE LET m == CHOOSE x \in S : \A y \in S : x <= y
         IN  << m >> \o SortedSet(S \ { m })

(* lines 180-190: the record of an image *)
ImageData(image_path, text_embedding, global_index) ==
    [type               |-> "image",
     source_image       |-> image_path,
     caption            |-> << "caption of", image_path >>,
     text_embedding     |-> text_embedding,
     global_chunk_index |-> global_index,
     chunk_index        |-> global_index]

(* lines 97-108: the embedding of the caption, or [] after an error *)
TextEmbeddings == { << >>, << 1 >> }

(* lines 156-159 *)
CaptionFailure(image_path) == [image_path |-> image_path, error |-> "error"]

(* The images of the batch at i, as indices into image_paths from 0. *)
ImageBatchOf(i) == { g \in 0..(Len(image_paths) - 1) : i <= g /\ g < i + ImageBatchSize }

InitImages ==
    /\ discovered \in Discoveries
    /\ image_paths = << >>
    /\ img_pc = "start"
    /\ img_i = 0
    /\ img_items = << >>
    /\ failed_captions = << >>
    /\ image_files = << >>
    /\ all_results = << >>
    /\ ChunkIdle
    /\ EmbIdle
    /\ PasIdle
    /\ MuIdle
    /\ EnIdle
    /\ CfgIdle
    /\ SimIdle

(* lines 206-221: no image is found *)
I_NoImages ==
    /\ img_pc = "start"
    /\ discovered = << >>
    /\ img_pc' = "returned"
    /\ UNCHANGED << discovered, image_paths, img_i, img_items, failed_captions,
                    image_files, all_results >>
    /\ UNCHANGED << chunk_vars, emb_vars, pas_vars, mu_vars, en_vars, cfg_vars, sim_vars >>

(* lines 206-237: the paths found are de-duplicated and sorted, and the
   batch loop is entered with i = 0 *)
I_Discover ==
    /\ img_pc = "start"
    /\ discovered # << >>
    /\ LET sorted == SortedSet({ discovered[k] : k \in 1..Len(discovered) })
       IN  /\ image_paths' = sorted
           /\ img_items' = [g \in 1..Len(sorted) |->
                               [pc |-> "idle", attempt |-> 0, history |-> << >>,
                                result |-> << >>]]
    /\ img_i' = 0
    /\ img_pc' = "dispatch"
    /\ UNCHANGED << discovered, failed_captions, image_files, all_results >>
    /\ UNCHANGED << chunk_vars, emb_vars, pas_vars, mu_vars, en_vars, cfg_vars, sim_vars >>

(* lines 237-244: the process_single_image tasks of the batch at i are
   created with global_index i + j and started; each begins its first
   captioning attempt *)
I_Dispatch ==
    /\ img_pc = "dispatch"
    /\ img_items' = [g \in 1..Len(img_items) |->
                        IF (g - 1) \in ImageBatchOf(img_i)
                        THEN [img_items[g] EXCEPT !.pc = "call"]
                        ELSE img_items[g]]
    /\ img_pc' = "await_batch"
    /\ UNCHANGED << discovered, image_paths, img_i, failed_captions, image_files,
                    all_results >>
    /\ UNCHANGED << chunk_vars, emb_vars, pas_vars, mu_vars, en_vars, cfg_vars, sim_vars >>

(* lines 112-147, 168-177: the vision call answers with an ImageCaption;
   generate_image_caption returns it and the embedding of the caption is
   requested *)
I_CaptionValid(idx) ==
    /\ img_pc = "await_batch"
    /\ img_items[idx + 1].pc = "call"
    /\ img_items' = [img_items EXCEPT ![idx + 1].pc = "embedding",
                                      ![idx + 1].history = Append(@, "valid")]
    /\ UNCHANGED << discovered, image_paths, img_pc, img_i, failed_captions, image_files,
                    all_results >>
    /\ UNCHANGED << chunk_vars, emb_vars, pas_vars, mu_vars, en_vars, cfg_vars, sim_vars >>

(* lines 112-147: the answer is not an ImageCaption and an attempt is
   left: the loop goes on to the next attempt at once *)
I_CaptionInvalidRetry(idx) ==
    /\ img_pc = "await_batch"
    /\ img_items[idx + 1].pc = "call"
    /\ img_items[idx + 1].attempt < MaxRetries - 1
    /\ img_items' = [img_items EXCEPT ![idx + 1].attempt = @ + 1,
                                      ![idx + 1].history = Append(@, "invalid")]
    /\ UNCHANGED << discovered, image_paths, img_pc, img_i, failed_captions, image_files,
                    all_results >>
    /\ UNCHANGED << chunk_vars, emb_vars, pas_vars, mu_vars, en_vars, cfg_vars, sim_vars >>

(* lines 112-147, 162, 170-171: the answer of the last attempt is not an
   ImageCaption: generate_image_caption and process_single_image return
   None *)
I_CaptionInvalidFinal(idx) ==
    /\ img_pc = "await_batch"
    /\ img_items[idx + 1].pc = "call"
    /\ img_items[idx + 1].attempt >= MaxRetries - 1
    /\ img_items' = [img_items EXCEPT ![idx + 1].pc = "returned",
                                      ![idx + 1].history = Append(@, "invalid")]
    /\ UNCHANGED << discovered, image_paths, img_pc, img_i, failed_captions, image_files,
                    all_results >>
    /\ UNCHANGED << chunk_vars, emb_vars, pas_vars, mu_vars, en_vars, cfg_vars, sim_vars >>

(* lines 113-153: preparing the image or the vision call raises and an
   attempt is left: sleep *)
I_RaiseRetry(idx) ==
    /\ img_pc = "await_batch"
    /\ img_items[idx + 1].pc = "call"
    /\ img_items[idx + 1].attempt < MaxRetries - 1
    /\ img_items' = [img_items EXCEPT ![idx + 1].pc = "sleep",
                                      ![idx + 1].history = Append(@, "raise")]
    /\ UNCHANGED << discovered, image_paths, img_pc, img_i, failed_captions, image_files,
                    all_results >>
    /\ UNCHANGED << chunk_vars, emb_vars, pas_vars, mu_vars, en_vars, cfg_vars, sim_vars >>

(* line 153: the sleep is over; the next attempt starts *)
I_Wake(idx) ==
    /\ img_pc = "await_batch"
    /\ img_items[idx + 1].pc = "sleep"
    /\ img_items' = [img_items EXCEPT ![idx + 1].pc = "call", ![idx + 1].attempt = @ + 1]
    /\ UNCHANGED << discovered, image_paths, img_pc, img_i, failed_captions, image_files,
                    all_results >>
    /\ UNCHANGED << chunk_vars, emb_vars, pas_vars, mu_vars, en_vars, cfg_vars, sim_vars >>

(* lines 149-162, 170-171: the last attempt raises: the failure is
   recorded and None is returned *)
I_RaiseFinal(idx) ==
    /\ img_pc = "await_batch"
    /\ img_items[idx + 1].pc = "call"
    /\ img_items[idx + 1].attempt >= MaxRetries - 1
    /\ failed_captions' = Append(failed_captions, CaptionFailure(image_paths[idx + 1]))
    /\ img_items' = [img_items EXCEPT ![idx + 1].pc = "returned",
                                      ![idx + 1].history = Append(@, "raise")]
    /\ UNCHANGED << discovered, image_paths, img_pc, img_i, image_files, all_results >>
    /\ UNCHANGED << chunk_vars, emb_vars, pas_vars, mu_vars, en_vars, cfg_vars, sim_vars >>

(* lines 177-197: get_text_embedding returns the embedding, or [] after
   an error; the record is written to image_{global_index}.json and
   returned *)
I_Save(idx) ==
    /\ img_pc = "await_batch"
    /\ img_items[idx + 1].pc = "embedding"
    /\ \E emb \in TextEmbeddings :
          LET image_data == ImageData(image_paths[idx + 1], emb, idx)
          IN  /\ image_files' = (idx :> image_data) @@ image_files
              /\ img_items' = [img_items EXCEPT ![idx + 1].pc = "returned",
                                                ![idx + 1].result = << image_data >>]
    /\ UNCHANGED << discovered, image_paths, img_pc, img_i, failed_captions, all_results >>
    /\ UNCHANGED << chunk_vars, emb_vars, pas_vars, mu_vars, en_vars, cfg_vars, sim_vars >>

(* lines 193-201: opening the output file raises; the exception is
   caught and None is returned *)
I_SaveRaise(idx) ==
    /\ img_pc = "await_batch"
    /\ img_items[idx + 1].pc = "embedding"
    /\ img_items' = [img_items EXCEPT ![idx + 1].pc = "returned"]
    /\ UNCHANGED << discovered, image_paths, img_pc, img_i, failed_captions, image_files,
                    all_results >>
    /\ UNCHANGED << chunk_vars, emb_vars, pas_vars, mu_vars, en_vars, cfg_vars, sim_vars >>

(* line 244: gather returns when every task of the batch has returned *)
ImageBatchJoined == \A g \in ImageBatchOf(img_i) : img_items[g + 1].pc = "returned"

(* line 245: the results of the batch that are not None, in task order *)
BatchResults(i) ==
    Concat([g \in 1..Cardinality(ImageBatchOf(i)) |-> img_items[i + g].result])

(* lines 244-251, 237: the batch is joined and the loop goes on *)
I_JoinNext ==
    /\ img_pc = "await_batch"
    /\ ImageBatchJoined
    /\ img_i + ImageBatchSize < Len(image_paths)
    /\ all_results' = all_results \o BatchResults(img_i)
    /\ img_i' = img_i + ImageBatchSize
    /\ img_pc' = "dispatch"
    /\ UNCHANGED << discovered, image_paths, img_items, failed_captions, image_files >>
    /\ UNCHANGED << chunk_vars, emb_vars, pas_vars, mu_vars, en_vars, cfg_vars, sim_vars >>

(* lines 244-262: the last batch is joined; all_results is returned *)
I_JoinLast ==
    /\ img_pc = "await_batch"
    /\ ImageBatchJoined
    /\ img_i + ImageBatchSize >= Len(image_paths)
    /\ all_results' = all_results \o BatchResults(img_i)
    /\ img_pc' = "returned"
    /\ UNCHANGED << discovered, image_paths, img_i, img_items, failed_captions,
                    image_files >>
    /\ UNCHANGED << chunk_vars, emb_vars, pas_vars, mu_vars, en_vars, cfg_vars, sim_vars >>

NextImages ==
    \/ I_NoImages
    \/ I_Discover
    \/ I_Dispatch
    \/ \E idx \in 0..(Len(img_items) - 1) : I_CaptionValid(idx)
    \/ \E idx \in 0..(Len(img_items) - 1) : I_CaptionInvalidRetry(idx)
    \/ \E idx \in 0..(Len(img_items) - 1) : I_CaptionInvalidFinal(idx)
    \/ \E idx \in 0..(Len(img_items) - 1) : I_RaiseRetry(idx)
    \/ \E idx \in 0..(Len(img_items) - 1) : I_Wake(idx)
    \/ \E idx \in 0..(Len(img_items) - 1) : I_RaiseFinal(idx)
    \/ \E idx \in 0..(Len(img_items) - 1) : I_Save(idx)
    \/ \E idx \in 0..(Len(img_items) - 1) : I_SaveRaise(idx)
    \/ I_JoinNext
    \/ I_JoinLast

SpecImages == InitImages /\ [][NextImages]_vars

(* The images none of whose max_retries captioning attempts gave a
   caption: every attempt raised or answered something that is not an
   ImageCaption. *)
CaptionFailedImages ==
    { g \in 0..(Len(img_items) - 1) :
         /\ img_items[g + 1].pc = "returned"
         /\ Len(img_items[g + 1].history) = MaxRetries
         /\ \A h \in 1..MaxRetries : img_items[g + 1].history[h] \in { "raise", "invalid" } }

CaptionFailuresOf(g) ==
    { j \in 1..Len(failed_captions) : failed_captions[j].image_path = image_paths[g + 1] }

ResultsOf(g) ==
    { j \in 1..Len(all_results) : all_results[j].source_image = image_paths[g + 1] }

(* C30: an image whose captioning failed on all max_retries attempts has
   no output file, is not among the results returned and has exactly one
   record in failed_captions; the other images are still processed, and
   the index of every image that was saved is its position in the sorted
   list of the images found, so the indices are distinct and may have
   gaps. *)
C30_AsStated ==
    /\ \A g \in CaptionFailedImages :
          /\ g \notin DOMAIN image_files
          /\ ResultsOf(g) = {}
          /\ Cardinality(CaptionFailuresOf(g)) = 1
    /\ \A n \in DOMAIN image_files :
          /\ n \in 0..(Len(image_paths) - 1)
          /\ image_files[n].global_chunk_index = n
          /\ image_files[n].source_image = image_paths[n + 1]
    /\ img_pc = "returned" =>
          /\ \A g \in 0..(Len(img_items) - 1) : img_items[g + 1].pc = "returned"
          /\ \A g \in 0..(Len(img_items) - 1) :
                img_items[g + 1].result # << >> =>
                   /\ g \in DOMAIN image_files
                   /\ Cardinality(ResultsOf(g)) = 1
          /\ \A j \in 1..Len(all_results) :
                /\ all_results[j].global_chunk_index \in DOMAIN image_files
                /\ image_files[all_results[j].global_chunk_index] = all_results[j]
          /\ \A j, k \in 1..Len(all_results) :
                j < k => all_results[j].global_chunk_index < all_results[k].global_chunk_index

====
